---- MODULE Spec2Model ----
(***************************************************************************)
(* A model of the PCK archive mutation engine of src/src/pck.rs.           *)
(*                                                                         *)
(* The archive file is a sequence of bytes (file offset o is index o + 1). *)
(* The header and the entry records are encoded and decoded byte by byte,  *)
(* little-endian, as binrw does for Header and RawFileEntry.  Paths are    *)
(* sequences of bytes (ASCII, so always valid UTF-8); 0 is the NUL byte.   *)
(***************************************************************************)
EXTENDS Integers, Sequences, FiniteSets, TLC

\* A decoded integer that does not fit the model's integers: any value of
\* at least 2^29 is read as Huge, which is larger than every file length.
Huge == 2^29

Min2(a, b) == IF a <= b THEN a ELSE b

Max2(a, b) == IF a >= b THEN a ELSE b

Zeros(n) == [i \in 1..n |-> 0]

RECURSIVE SumSeq(_)
SumSeq(s) == IF s = <<>> THEN 0 ELSE Head(s) + SumSeq(Tail(s))

\* ---------------------------------------------------------------- bytes

\* u32::write_le
U32LE(n) ==
    << n % 256, (n \div 256) % 256, (n \div 65536) % 256, (n \div 16777216) % 256 >>

\* u64::write_le (the model's integers are below 2^31)
U64LE(n) == U32LE(n) \o <<0, 0, 0, 0>>

\* little-endian decode of 4 or 8 bytes
FromLE(bs) ==
    IF \E i \in 1..Len(bs) : (i > 4 /\ bs[i] # 0) \/ (i = 4 /\ bs[i] >= 32)
    THEN Huge
    ELSE bs[1] + 256 * bs[2] + 65536 * bs[3] + 16777216 * bs[4]

\* the bytes [off, off + n) of the file; <<>> when they are not all there
ReadAt(f, off, n) ==
    IF off + n <= Len(f) THEN SubSeq(f, off + 1, off + n) ELSE <<>>

\* write_all at a seeked position: overwrites in place, extends the file
\* (zero-filled if the position is past the end)
WriteAt(f, off, data) ==
    IF data = <<>> THEN f ELSE
    LET base == IF off > Len(f) THEN f \o Zeros(off - Len(f)) ELSE f
    IN  SubSeq(base, 1, off) \o data \o SubSeq(base, off + Len(data) + 1, Len(base))

\* md5::compute: the digest of an external crate, modelled as a 16-byte
\* function of the data (its length, then the data folded into 15 bytes)
Md5(data) ==
    <<Len(data) % 128>> \o
    [i \in 1..15 |->
        SumSeq([k \in 1..((Len(data) + 15 - i) \div 15) |-> data[i + 15 * (k - 1)]]) % 128]

\* ---------------------------------------------------------------- codec

\* b"GDPC"
Magic == <<71, 68, 80, 67>>

\* Header::write_le (bw: magic, little)
Header_write(h) ==
    Magic \o U32LE(h.version) \o U32LE(h.godot_version_major)
          \o U32LE(h.godot_version_minor) \o U32LE(h.godot_version_patch)
          \o h.reserved \o U32LE(h.file_count)

\* a Header::read without the file_count assert
Header_read_no_count_assert(f) ==
    LET bs == ReadAt(f, 0, 88)
        h  == [ version             |-> FromLE(SubSeq(bs, 5, 8)),
                godot_version_major |-> FromLE(SubSeq(bs, 9, 12)),
                godot_version_minor |-> FromLE(SubSeq(bs, 13, 16)),
                godot_version_patch |-> FromLE(SubSeq(bs, 17, 20)),
                reserved            |-> SubSeq(bs, 21, 84),
                file_count          |-> FromLE(SubSeq(bs, 85, 88)) ]
    IN  IF bs = <<>> \/ SubSeq(bs, 1, 4) # Magic
        THEN [ok |-> FALSE]
        ELSE IF h.version # 1
        THEN [ok |-> FALSE]
        ELSE [ok |-> TRUE, header |-> h, next |-> 88]

\* Header::read (br: magic, little, the two asserts).  reserved is kept as
\* its 64 bytes.  next is the stream position after the header.
Header_read(f) ==
    LET bs == ReadAt(f, 0, 88)
        h  == [ version             |-> FromLE(SubSeq(bs, 5, 8)),
                godot_version_major |-> FromLE(SubSeq(bs, 9, 12)),
                godot_version_minor |-> FromLE(SubSeq(bs, 13, 16)),
                godot_version_patch |-> FromLE(SubSeq(bs, 17, 20)),
                reserved            |-> SubSeq(bs, 21, 84),
                file_count          |-> FromLE(SubSeq(bs, 85, 88)) ]
    IN  IF bs = <<>> \/ SubSeq(bs, 1, 4) # Magic
        THEN [ok |-> FALSE]
        ELSE IF h.version # 1 \/ ~(h.file_count > 0)
        THEN [ok |-> FALSE]
        ELSE [ok |-> TRUE, header |-> h, next |-> 88]

\* RawFileEntry::read at a file position: path_len, path_len path bytes,
\* offset, size, md5.  next is the stream position after the record.
RawFileEntry_read(f, pos) ==
    LET lenb == ReadAt(f, pos, 4)
        plen == IF lenb = <<>> THEN 0 ELSE FromLE(lenb)
        rest == IF lenb = <<>> \/ plen >= Huge THEN <<>>
                ELSE ReadAt(f, pos + 4, plen + 32)
    IN  IF lenb = <<>> \/ plen >= Huge \/ Len(rest) # plen + 32
        THEN [ok |-> FALSE]
        ELSE [ok   |-> TRUE,
              next |-> pos + 4 + plen + 32,
              entry |-> [ path_len   |-> plen,
                          path_bytes |-> SubSeq(rest, 1, plen),
                          offset     |-> FromLE(SubSeq(rest, plen + 1, plen + 8)),
                          size       |-> FromLE(SubSeq(rest, plen + 9, plen + 16)),
                          md5        |-> SubSeq(rest, plen + 17, plen + 32) ]]

\* the record as the table writers emit it, field by field
RawFileEntry_write(e) ==
    U32LE(e.path_len) \o e.path_bytes \o U64LE(e.offset) \o U64LE(e.size) \o e.md5

\* str::trim_end_matches('\0')
RECURSIVE TrimNul(_)
TrimNul(bs) ==
    IF bs # <<>> /\ bs[Len(bs)] = 0 THEN TrimNul(SubSeq(bs, 1, Len(bs) - 1)) ELSE bs

\* RawFileEntry::path: the path bytes as a string without trailing NULs
\* (every byte of the model is ASCII, so from_utf8 never fails)
RawFileEntry_path(e) == TrimNul(e.path_bytes)

entry_binary_size(path_len) == 4 + path_len + 8 + 8 + 16

\* pad with NUL to a multiple of 4
normalized_path_bytes(path) ==
    path \o Zeros((4 - (Len(path) % 4)) % 4)

\* ----------------------------------------------------------- entry index

\* HashMap::insert
MapInsert(m, k, v) == [x \in (DOMAIN m) \cup {k} |-> IF x = k THEN v ELSE m[x]]

EmptyMap == [x \in {} |-> 0]

\* read_header_and_index: the header, then file_count records read one after
\* the other from the position after the header; a later record with the
\* same decoded path replaces the earlier one in the index.
RECURSIVE ReadIndex(_, _, _, _)
ReadIndex(f, pos, n, index) ==
    IF n = 0 THEN [ok |-> TRUE, index |-> index]
    ELSE LET r == RawFileEntry_read(f, pos)
         IN  IF ~r.ok THEN [ok |-> FALSE]
             ELSE ReadIndex(f, r.next, n - 1,
                            MapInsert(index, RawFileEntry_path(r.entry), pos))

read_header_and_index(f) ==
    LET h == Header_read(f)
    IN  IF ~h.ok THEN [ok |-> FALSE]
        ELSE LET ix == ReadIndex(f, h.next, h.header.file_count, EmptyMap)
             IN  IF ~ix.ok THEN [ok |-> FALSE]
                 ELSE [ok |-> TRUE, header |-> h.header, index |-> ix.index]

\* build_entry_map: every (path, table offset) of the index is re-parsed
\* from the file into an EntryRecord.  The index's table offsets are
\* distinct stream positions, so no insert violates uniqueness.
build_entry_map(f, entry_offsets) ==
    LET reads == [p \in DOMAIN entry_offsets |-> RawFileEntry_read(f, entry_offsets[p])]
    IN  IF \E p \in DOMAIN entry_offsets : ~reads[p].ok
        THEN [ok |-> FALSE]
        ELSE [ok |-> TRUE,
              map |-> { [path |-> p, table_offset |-> entry_offsets[p],
                         entry |-> reads[p].entry] : p \in DOMAIN entry_offsets }]

get_by_path(em, path) == { r \in em : r.path = path }

\* iter_by_table_offset: the records in ascending table_offset order
RECURSIVE iter_by_table_offset(_)
iter_by_table_offset(em) ==
    IF em = {} THEN <<>>
    ELSE LET first == CHOOSE r \in em : \A q \in em : r.table_offset <= q.table_offset
         IN  <<first>> \o iter_by_table_offset(em \ {first})

\* update_by_path with a closure that sets the entry's data offset
update_offset(em, path, new_offset) ==
    { IF r.path = path THEN [r EXCEPT !.entry.offset = new_offset] ELSE r : r \in em }

\* a replace loop that stores the new offset and checksum but not the size
update_replaced_keeps_size(em, path, new_offset, data) ==
    { IF r.path = path
      THEN [r EXCEPT !.entry.offset = new_offset, !.entry.md5 = Md5(data)]
      ELSE r : r \in em }

\* update_by_path with the closure of the replace loop
update_replaced(em, path, new_offset, data) ==
    { IF r.path = path
      THEN [r EXCEPT !.entry.offset = new_offset,
                     !.entry.size = Len(data),
                     !.entry.md5 = Md5(data)]
      ELSE r : r \in em }

\* split_inputs: batch items whose path is in the index, and the others,
\* each in batch order
split_inputs(files, em) ==
    [ replace_inputs |-> SelectSeq(files, LAMBDA it : get_by_path(em, it.path) # {}),
      add_inputs     |-> SelectSeq(files, LAMBDA it : get_by_path(em, it.path) = {}) ]

TableSize(recs) == SumSeq([i \in 1..Len(recs) |-> entry_binary_size(recs[i].entry.path_len)])

\* a plan_table that leaves the records of the added paths out of
\* table_end_after
plan_table_without_additional(em, add_inputs) ==
    LET recs         == iter_by_table_offset(em)
        table_start  == recs[1].table_offset
        current_size == TableSize(recs)
    IN  [ table_start           |-> table_start,
          table_end_after       |-> table_start + current_size,
          next_new_table_offset |-> table_start + current_size ]

\* plan_table (the index is not empty here)
plan_table(em, add_inputs) ==
    LET recs         == iter_by_table_offset(em)
        table_start  == recs[1].table_offset
        current_size == TableSize(recs)
        additional   == SumSeq([i \in 1..Len(add_inputs) |->
                           entry_binary_size(Len(normalized_path_bytes(add_inputs[i].path)))])
    IN  [ table_start           |-> table_start,
          table_end_after       |-> table_start + current_size + additional,
          next_new_table_offset |-> table_start + current_size ]

\* ------------------------------------------------------------ I/O steps

\* An injected I/O failure: the at-th write step of the call fails after
\* part bytes of it reached the file (at = 0: no step fails).
NoFail == [at |-> 0, part |-> 0]

\* The running state of one call: the file, the AppendCtx position, the
\* entry index, the count of write steps so far, the error ("" while none),
\* the kind of the step that failed, the log of the completed writes in the
\* order they happened, and the paths whose data was relocated.
StartCall(f, em) ==
    [file |-> f, pos |-> Len(f), em |-> em, n |-> 0, err |-> "", failed |-> "",
     log |-> <<>>, moved |-> {}]

\* one seek + write_all (+ flush) of data at off
IoWrite(st, off, data, kind, path, fail) ==
    IF st.err # "" THEN st
    ELSE IF st.n + 1 = fail.at
    THEN [st EXCEPT !.n = @ + 1, !.err = "err_io", !.failed = kind,
                    !.file = WriteAt(@, off, SubSeq(data, 1, Min2(fail.part, Max2(Len(data) - 1, 0))))]
    ELSE [st EXCEPT !.n = @ + 1,
                    !.file = WriteAt(@, off, data),
                    !.log = Append(@, [kind |-> kind, path |-> path, at |-> off, len |-> Len(data)])]

\* an append_bytes that does not advance append_pos
append_bytes_no_advance(st, data, kind, path, fail) ==
    IoWrite(st, st.pos, data, kind, path, fail)

\* an append_bytes that does not seek: the duplicated handle's cursor is at
\* the start of the file
append_bytes_unseeked(st, data, kind, path, fail) ==
    LET w == IoWrite(st, 0, data, kind, path, fail)
    IN  IF w.err = "" THEN [w EXCEPT !.pos = @ + Len(data)] ELSE w

\* AppendCtx::append_bytes: write at append_pos and advance it
append_bytes(st, data, kind, path, fail) ==
    LET w == IoWrite(st, st.pos, data, kind, path, fail)
    IN  IF w.err = "" THEN [w EXCEPT !.pos = @ + Len(data)] ELSE w

\* a relocation that copies the data but leaves the entry's offset as it was
MoveOne_keeps_offset(st, r, fail) ==
    IF st.err # "" THEN st
    ELSE IF r.entry.offset + r.entry.size > Len(st.file)
    THEN [st EXCEPT !.err = "err_move"]
    ELSE LET buf == ReadAt(st.file, r.entry.offset, r.entry.size)
             w   == append_bytes(st, buf, "move", r.path, fail)
         IN  IF w.err # "" THEN w
             ELSE [w EXCEPT !.moved = @ \cup {r.path}]

\* a move_range whose reader is not repositioned: it copies from the start
\* of the file
MoveOne_unseeked(st, r, fail) ==
    IF st.err # "" THEN st
    ELSE IF r.entry.offset + r.entry.size > Len(st.file)
    THEN [st EXCEPT !.err = "err_move"]
    ELSE LET buf == ReadAt(st.file, 0, r.entry.size)
             w   == append_bytes(st, buf, "move", r.path, fail)
         IN  IF w.err # "" THEN w
             ELSE [w EXCEPT !.em = update_offset(@, r.path, st.pos),
                            !.moved = @ \cup {r.path}]

\* AppendCtx::move_range followed by the caller's update of the entry's
\* offset: read size bytes at offset (an error if the file ends before),
\* append them, store the new offset
MoveOne(st, r, fail) ==
    IF st.err # "" THEN st
    ELSE IF r.entry.offset + r.entry.size > Len(st.file)
    THEN [st EXCEPT !.err = "err_move"]
    ELSE LET buf == ReadAt(st.file, r.entry.offset, r.entry.size)
             w   == append_bytes(st, buf, "move", r.path, fail)
         IN  IF w.err # "" THEN w
             ELSE [w EXCEPT !.em = update_offset(@, r.path, st.pos),
                            !.moved = @ \cup {r.path}]

RECURSIVE MoveLoop(_, _, _)
MoveLoop(st, targets, fail) ==
    IF targets = <<>> THEN st
    ELSE MoveLoop(MoveOne(st, Head(targets), fail), Tail(targets), fail)

\* one round of the add loop: append the payload, insert the new record at
\* the next free table offset (MultiIndexMap::insert panics if a record
\* already has that table offset)
AddOne(st, it, table_offset, fail) ==
    LET path_bytes == normalized_path_bytes(it.path)
        w          == append_bytes(st, it.data, "add", it.path, fail)
    IN  IF st.err # "" \/ w.err # "" THEN w
        ELSE IF \E r \in st.em : r.table_offset = table_offset
        THEN [w EXCEPT !.err = "panic"]
        ELSE [w EXCEPT !.em = @ \cup
                 { [path |-> it.path, table_offset |-> table_offset,
                    entry |-> [ path_len   |-> Len(path_bytes),
                                path_bytes |-> path_bytes,
                                offset     |-> st.pos,
                                size       |-> Len(it.data),
                                md5        |-> Md5(it.data) ]] }]

\* an add loop that advances the table offset by the record size of the path
\* as given, without its padding
RECURSIVE AddLoop_unpadded_advance(_, _, _, _)
AddLoop_unpadded_advance(st, adds, next_new_table_offset, fail) ==
    IF adds = <<>> THEN st
    ELSE AddLoop_unpadded_advance(AddOne(st, Head(adds), next_new_table_offset, fail),
                 Tail(adds),
                 next_new_table_offset + entry_binary_size(Len(Head(adds).path)),
                 fail)

RECURSIVE AddLoop(_, _, _, _)
AddLoop(st, adds, next_new_table_offset, fail) ==
    IF adds = <<>> THEN st
    ELSE AddLoop(AddOne(st, Head(adds), next_new_table_offset, fail), Tail(adds),
                 next_new_table_offset
                   + entry_binary_size(Len(normalized_path_bytes(Head(adds).path))),
                 fail)

\* one round of the replace loop
ReplaceOne(st, it, fail) ==
    LET w == append_bytes(st, it.data, "replace", it.path, fail)
    IN  IF st.err # "" \/ w.err # "" THEN w
        ELSE [w EXCEPT !.em = update_replaced(@, it.path, st.pos, it.data)]

RECURSIVE ReplaceLoop(_, _, _)
ReplaceLoop(st, reps, fail) ==
    IF reps = <<>> THEN st
    ELSE ReplaceLoop(ReplaceOne(st, Head(reps), fail), Tail(reps), fail)

\* AppendCtx::flush
Flush(st, fail) == IoWrite(st, st.pos, <<>>, "flush", <<>>, fail)

\* the table as the table writer emits it: the records in the given order,
\* back to back
RECURSIVE TableBytes(_)
TableBytes(recs) ==
    IF recs = <<>> THEN <<>>
    ELSE RawFileEntry_write(Head(recs).entry) \o TableBytes(Tail(recs))

\* a rewrite that writes the header back without the new file_count
WriteHeaderAndTable_old_count(st, header, file_count, table_start, recs, fail) ==
    LET h == IoWrite(st, 0, Header_write(header), "header", <<>>, fail)
    IN  IoWrite(h, table_start, TableBytes(recs), "table", <<>>, fail)

\* the header writer, then the table writer
WriteHeaderAndTable(st, header, file_count, table_start, recs, fail) ==
    LET new_header == [header EXCEPT !.file_count = file_count]
        h == IoWrite(st, 0, Header_write(new_header), "header", <<>>, fail)
    IN  IoWrite(h, table_start, TableBytes(recs), "table", <<>>, fail)

\* a guard that also refuses a table that ends where the data begins
table_overflows_or_touches(table_start, recalculated_table_size, min_data_offset) ==
    table_start + recalculated_table_size >= min_data_offset

\* a guard that compares the table's size, not its end, with the data
table_overflows_size_only(table_start, recalculated_table_size, min_data_offset) ==
    recalculated_table_size > min_data_offset

\* the overflow guard of replace_files_in_pck
table_overflows(table_start, recalculated_table_size, min_data_offset) ==
    table_start + recalculated_table_size > min_data_offset

\* a delete guard that compares the table's size, not its end, with the data
table_overflows_after_delete_size_only(table_start, recalculated_table_size, min_data_offset) ==
    recalculated_table_size > min_data_offset

\* the same guard in delete_files_in_pck
table_overflows_after_delete(table_start, recalculated_table_size, min_data_offset) ==
    table_start + recalculated_table_size > min_data_offset

\* a duplicate check that compares each path with the one before it only
HasDuplicate_adjacent(paths) == \E i \in 1..(Len(paths) - 1) : paths[i] = paths[i + 1]

\* the HashSet insert loop over the batch's paths
HasDuplicate(paths) == \E i, j \in 1..Len(paths) : i < j /\ paths[i] = paths[j]

MinOffset(em) == CHOOSE o \in { r.entry.offset : r \in em } : \A r \in em : o <= r.entry.offset

MaxDataEnd(em) ==
    CHOOSE o \in { r.entry.offset + r.entry.size : r \in em } :
        \A r \in em : o >= r.entry.offset + r.entry.size

\* the remaining records of a delete, re-laid-out from table_start in their
\* existing order
RECURSIVE Relayout(_, _)
Relayout(recs, current_offset) ==
    IF recs = <<>> THEN <<>>
    ELSE <<[Head(recs) EXCEPT !.table_offset = current_offset]>>
         \o Relayout(Tail(recs), current_offset + entry_binary_size(Head(recs).entry.path_len))

\* a delete loop without its `continue`: every record is kept
remaining_records_keeps_all(recs, existing_to_remove, table_start) ==
    Relayout(recs, table_start)

\* a delete loop that collects the kept records last to first
remaining_records_reversed(recs, existing_to_remove, table_start) ==
    LET kept == SelectSeq(recs, LAMBDA r : r.path \notin existing_to_remove)
    IN  Relayout([i \in 1..Len(kept) |-> kept[Len(kept) + 1 - i]], table_start)

\* the loop that collects the records a delete keeps
remaining_records(recs, existing_to_remove, table_start) ==
    Relayout(SelectSeq(recs, LAMBDA r : r.path \notin existing_to_remove), table_start)

\* a final size that looks at the table only
delete_final_size_table_only(table_end, em) == table_end

\* the size a delete truncates the file to
delete_final_size(table_end, em) == Max2(table_end, MaxDataEnd(em))

\* File::set_len: truncate, or extend with zeros
set_len(f, n) == IF n <= Len(f) THEN SubSeq(f, 1, n) ELSE f \o Zeros(n - Len(f))

\* the final set_len of a delete, as one more step that can fail
Truncate(st, final_size, fail) ==
    IF st.err # "" THEN st
    ELSE IF st.n + 1 = fail.at
    THEN [st EXCEPT !.n = @ + 1, !.err = "err_io", !.failed = "set_len"]
    ELSE [st EXCEPT !.n = @ + 1, !.file = set_len(@, final_size),
                    !.log = Append(@, [kind |-> "set_len", path |-> <<>>, at |-> final_size, len |-> 0])]

\* --------------------------------------- steam.rs: libraryfolders.vdf
\* A string is a sequence of characters, a character its ASCII code:
\* 34 is the double quote, 92 the backslash, 10 the line feed.

\* str::lines: the pieces between line feeds, each without a carriage
\* return at its end; no last empty line
RECURSIVE str_lines(_, _)
str_lines(content, cur) ==
    IF content = <<>> THEN (IF cur = <<>> THEN <<>> ELSE <<cur>>)
    ELSE IF Head(content) = 10
    THEN <<(IF cur # <<>> /\ cur[Len(cur)] = 13 THEN SubSeq(cur, 1, Len(cur) - 1) ELSE cur)>>
         \o str_lines(Tail(content), <<>>)
    ELSE str_lines(Tail(content), Append(cur, Head(content)))

is_whitespace(c) == c \in {9, 10, 11, 12, 13, 32}

\* str::trim
RECURSIVE str_trim(_)
str_trim(line) ==
    IF line = <<>> THEN line
    ELSE IF is_whitespace(Head(line)) THEN str_trim(Tail(line))
    ELSE IF is_whitespace(line[Len(line)]) THEN str_trim(SubSeq(line, 1, Len(line) - 1))
    ELSE line

\* an inner loop of parse_quoted_kv_pair that keeps the backslash
RECURSIVE read_quoted_keeps_backslash(_, _, _)
read_quoted_keeps_backslash(chars, i, out) ==
    IF i > Len(chars) THEN [out |-> out, next |-> i]
    ELSE IF chars[i] = 92
    THEN IF i + 1 <= Len(chars)
         THEN read_quoted_keeps_backslash(chars, i + 2, out \o <<92, chars[i + 1]>>)
         ELSE read_quoted_keeps_backslash(chars, i + 1, out)
    ELSE IF chars[i] = 34 THEN [out |-> out, next |-> i + 1]
    ELSE read_quoted_keeps_backslash(chars, i + 1, Append(out, chars[i]))

\* the inner loop of parse_quoted_kv_pair, entered after an opening quote:
\* a backslash is dropped and the next character, if any, pushed; a quote
\* ends the loop; so does the end of the line
RECURSIVE read_quoted(_, _, _)
read_quoted(chars, i, out) ==
    IF i > Len(chars) THEN [out |-> out, next |-> i]
    ELSE IF chars[i] = 92
    THEN IF i + 1 <= Len(chars)
         THEN read_quoted(chars, i + 2, Append(out, chars[i + 1]))
         ELSE read_quoted(chars, i + 1, out)
    ELSE IF chars[i] = 34 THEN [out |-> out, next |-> i + 1]
    ELSE read_quoted(chars, i + 1, Append(out, chars[i]))

\* the outer loop of parse_quoted_kv_pair: skip to the next quote, read a
\* part, stop at two parts
RECURSIVE read_parts(_, _, _)
read_parts(chars, i, parts) ==
    IF i > Len(chars) THEN parts
    ELSE IF chars[i] # 34 THEN read_parts(chars, i + 1, parts)
    ELSE LET r == read_quoted(chars, i + 1, <<>>)
         IN  IF Len(parts) + 1 = 2 THEN Append(parts, r.out)
             ELSE read_parts(chars, r.next, Append(parts, r.out))

parse_quoted_kv_pair(line) ==
    LET parts == read_parts(line, 1, <<>>)
    IN  IF Len(parts) = 2 THEN [some |-> TRUE, key |-> parts[1], value |-> parts[2]]
        ELSE [some |-> FALSE]

starts_with(s, pre_) == Len(s) >= Len(pre_) /\ SubSeq(s, 1, Len(pre_)) = pre_

contains(s, pat) == \E i \in 1..(Len(s) - Len(pat) + 1) : SubSeq(s, i, i + Len(pat) - 1) = pat

looks_like_path(value) ==
    \/ starts_with(value, <<47>>)
    \/ starts_with(value, <<92, 92>>)
    \/ contains(value, <<58, 92>>)
    \/ contains(value, <<58, 47>>)

to_ascii_lowercase(c) == IF c >= 65 /\ c <= 90 THEN c + 32 ELSE c

eq_ignore_ascii_case(a, b) ==
    /\ Len(a) = Len(b)
    /\ \A i \in 1..Len(a) : to_ascii_lowercase(a[i]) = to_ascii_lowercase(b[i])

is_ascii_digit(c) == c >= 48 /\ c <= 57

\* "path"
KeyPath == <<112, 97, 116, 104>>

\* the body of the loop of parse_libraryfolders_vdf: what a line pushes
vdf_line_paths(raw_line) ==
    LET line == str_trim(raw_line)
        kv   == parse_quoted_kv_pair(line)
    IN  IF line = <<>> THEN <<>>
        ELSE IF ~kv.some THEN <<>>
        ELSE IF eq_ignore_ascii_case(kv.key, KeyPath)
        THEN (IF kv.value # <<>> THEN <<kv.value>> ELSE <<>>)
        ELSE IF (\A i \in 1..Len(kv.key) : is_ascii_digit(kv.key[i]))
                /\ looks_like_path(kv.value)
        THEN <<kv.value>>
        ELSE <<>>

RECURSIVE vdf_paths_of_lines(_)
vdf_paths_of_lines(lines) ==
    IF lines = <<>> THEN <<>>
    ELSE vdf_line_paths(Head(lines)) \o vdf_paths_of_lines(Tail(lines))

parse_libraryfolders_vdf(content) == vdf_paths_of_lines(str_lines(content, <<>>))

\* ------------------------------------------------- tweak.rs: run_tweak

\* "res://plugin_version.txt"
PluginVersionPath ==
    <<114, 101, 115, 58, 47, 47, 112, 108, 117, 103, 105, 110, 95, 118, 101, 114, 115, 105, 111, 110, 46, 116, 120, 116>>

\* "res://Core/Game.gde"
GameGdePath ==
    <<114, 101, 115, 58, 47, 47, 67, 111, 114, 101, 47, 71, 97, 109, 101, 46, 103, 100, 101>>

HexDigit(n) == IF n < 10 THEN 48 + n ELSE 87 + n

\* compute_file_hash: the digest as 32 lower-case hexadecimal digits
compute_file_hash(data) ==
    LET d == Md5(data)
    IN  [i \in 1..32 |-> HexDigit(IF i % 2 = 1 THEN d[(i + 1) \div 2] \div 16
                                  ELSE d[i \div 2] % 16)]

\* read_file_from_pck: the record at the path's table offset, then size
\* bytes at its data offset
read_file_from_pck(f, entry_offsets, res_path) ==
    IF res_path \notin DOMAIN entry_offsets THEN [ok |-> FALSE, data |-> <<>>]
    ELSE LET e == RawFileEntry_read(f, entry_offsets[res_path])
         IN  IF ~e.ok THEN [ok |-> FALSE, data |-> <<>>]
             ELSE IF e.entry.offset + e.entry.size > Len(f) THEN [ok |-> FALSE, data |-> <<>>]
             ELSE [ok |-> TRUE, data |-> ReadAt(f, e.entry.offset, e.entry.size)]

\* String::from_utf8 succeeds: the texts of the model are ASCII, or hold
\* the byte 255, which no UTF-8 text holds
from_utf8_ok(bytes) == \A i \in 1..Len(bytes) : bytes[i] < 128

\* a check_plugin_version_txt that does not compare the versions
check_plugin_version_txt_no_compare(f, entry_offsets, version_config) ==
    IF PluginVersionPath \notin DOMAIN entry_offsets THEN [ok |-> TRUE, has |-> FALSE]
    ELSE LET r == read_file_from_pck(f, entry_offsets, PluginVersionPath)
         IN  IF ~r.ok \/ ~from_utf8_ok(r.data) THEN [ok |-> FALSE, has |-> FALSE]
             ELSE IF Len(str_lines(r.data, <<>>)) < 2 THEN [ok |-> FALSE, has |-> FALSE]
             ELSE [ok |-> TRUE, has |-> TRUE]

\* check_plugin_version_txt: Ok(false) without the file; with it, an error
\* unless it is UTF-8, has two lines and its first line, trimmed, is the
\* required game version
check_plugin_version_txt(f, entry_offsets, version_config) ==
    IF PluginVersionPath \notin DOMAIN entry_offsets THEN [ok |-> TRUE, has |-> FALSE]
    ELSE LET r == read_file_from_pck(f, entry_offsets, PluginVersionPath)
         IN  IF ~r.ok \/ ~from_utf8_ok(r.data) THEN [ok |-> FALSE, has |-> FALSE]
             ELSE LET lines == str_lines(r.data, <<>>)
                  IN  IF Len(lines) < 2 THEN [ok |-> FALSE, has |-> FALSE]
                      ELSE IF str_trim(lines[1]) # version_config.required_game_version
                      THEN [ok |-> FALSE, has |-> FALSE]
                      ELSE [ok |-> TRUE, has |-> TRUE]

\* check_game_gde_hash: the hash of Game.gde is the one configured for the
\* required game version, compared as strings
check_game_gde_hash(f, entry_offsets, version_config) ==
    LET r == read_file_from_pck(f, entry_offsets, GameGdePath)
    IN  /\ r.ok
        /\ version_config.required_game_version \in DOMAIN version_config.version_hashes
        /\ compute_file_hash(r.data)
              = version_config.version_hashes[version_config.required_game_version]

create_plugin_version_content(version_config) ==
    version_config.required_game_version \o <<10>> \o version_config.plugin_version

\* where run_tweak stands after a read_header_and_index
after_read(t, ok) ==
    IF t.pc = "read" THEN [t EXCEPT !.pc = IF ok THEN "version_config" ELSE "failed"]
    ELSE IF t.pc = "reread" THEN [t EXCEPT !.pc = IF ok THEN "replace" ELSE "failed"]
    ELSE t

\* where run_tweak stands after a mutation call
after_call(t, result) ==
    IF t.pc = "delete" THEN [t EXCEPT !.pc = IF result = "ok" THEN "reread" ELSE "failed"]
    ELSE IF t.pc = "replace" THEN [t EXCEPT !.pc = IF result = "ok" THEN "done" ELSE "failed"]
    ELSE t

\* ------------------------------------------------------------ inputs

\* the batch items (paths to delete) handed over in all calls of one run
\* together; an empty batch counts as one
MaxWork == 3

MaxFailAt == 8

PathA == <<97>>

PathB == <<98>>

PathC == <<99>>

PathLong == <<97, 98, 99, 100, 101>>

\* "a" followed by a NUL character
PathNul == <<97, 0>>

DataBig == [i \in 1..90 |-> i]

DataMid == [i \in 1..45 |-> 100 + (i % 20)]

\* the (path, payload) pairs a batch is made of
Items ==
    { [path |-> PathA,    data |-> <<7>>],
      [path |-> PathB,    data |-> <<8, 9>>],
      [path |-> PathC,    data |-> <<>>],
      [path |-> PathLong, data |-> <<7, 7>>],
      [path |-> PathNul,  data |-> <<9>>] }

DeletePaths == { PathA, PathB, PathC, PathLong }

SeqsUpTo(S, n) == UNION { [1..k -> S] : k \in 0..n }

Batches == SeqsUpTo(Items, MaxWork)

DeleteLists == SeqsUpTo(DeletePaths, MaxWork)

Cost(batch) == Max2(1, Len(batch))

Fails == { [at |-> a, part |-> p] : a \in 1..MaxFailAt, p \in {0, 1, 44, 87} }

BaseHeader ==
    [ version |-> 1, godot_version_major |-> 3, godot_version_minor |-> 5,
      godot_version_patch |-> 1, reserved |-> Zeros(64), file_count |-> 0 ]

\* A well-formed archive: the header, the records of ents back to back,
\* gap unused bytes, then the data of the entries in table order.
\* ents is a sequence of [path_bytes, data].
RECURSIVE MkRecords(_, _)
MkRecords(ents, data_offset) ==
    IF ents = <<>> THEN <<>>
    ELSE <<[ path_len   |-> Len(Head(ents).path_bytes),
             path_bytes |-> Head(ents).path_bytes,
             offset     |-> data_offset,
             size       |-> Len(Head(ents).data),
             md5        |-> Md5(Head(ents).data) ]>>
         \o MkRecords(Tail(ents), data_offset + Len(Head(ents).data))

RECURSIVE Concat(_)
Concat(ss) == IF ss = <<>> THEN <<>> ELSE Head(ss) \o Concat(Tail(ss))

MkArchive(ents, gap) ==
    LET table_size == SumSeq([i \in 1..Len(ents) |-> entry_binary_size(Len(ents[i].path_bytes))])
        recs       == MkRecords(ents, 88 + table_size + gap)
    IN  Header_write([BaseHeader EXCEPT !.file_count = Len(ents)])
        \o Concat([i \in 1..Len(recs) |-> RawFileEntry_write(recs[i])])
        \o Zeros(gap)
        \o Concat([i \in 1..Len(ents) |-> ents[i].data])

\* two small files right after the table: no room for the table to grow
ArchSmall ==
    MkArchive(<< [path_bytes |-> normalized_path_bytes(PathA), data |-> <<1>>],
                 [path_bytes |-> normalized_path_bytes(PathB), data |-> <<2, 3>>] >>, 0)

\* a file larger than two records right after the table
ArchBig ==
    MkArchive(<< [path_bytes |-> normalized_path_bytes(PathA), data |-> DataBig],
                 [path_bytes |-> normalized_path_bytes(PathB), data |-> <<2, 3>>] >>, 0)

\* room for exactly one more record between the table and the data
ArchGap ==
    MkArchive(<< [path_bytes |-> normalized_path_bytes(PathA), data |-> <<1>>],
                 [path_bytes |-> normalized_path_bytes(PathB), data |-> <<2, 3>>] >>, 40)

\* a path stored without padding and a path of two words; a small file, then
\* one larger than a record
ArchOdd ==
    MkArchive(<< [path_bytes |-> PathB, data |-> <<1>>],
                 [path_bytes |-> normalized_path_bytes(PathLong), data |-> DataMid] >>, 3)

\* a file whose second entry claims data inside the table region (offset
\* 100, in the first record): read_header_and_index accepts it
ArchLow == WriteAt(ArchGap, 136, U64LE(100))

\* files that are not version 1 archives with at least one entry
ArchBadMagic == WriteAt(ArchSmall, 0, <<71, 68, 80, 68>>)

ArchVersion2 == WriteAt(ArchSmall, 4, U32LE(2))

ArchNoFiles == WriteAt(ArchSmall, 84, U32LE(0))

Archives ==
    { ArchSmall, ArchBig, ArchGap, ArchOdd, ArchLow,
      ArchBadMagic, ArchVersion2, ArchNoFiles }

\* run_tweak's inputs.  The required game version is "1", the plugin
\* version "7".  replace.toml is read twice: for its [version] and
\* [version-hash] tables, then for [replace] and delete, whose assets are
\* loaded; either can fail.
GdeData == <<10, 11>>

GdeOther == <<1>>

\* plugin_version.txt: "1\n7"; " 1 \n7"; "1"; "2\n7"; a text that is not
\* UTF-8
PluginTexts ==
    { <<49, 10, 55>>, <<32, 49, 32, 10, 55>>, <<49>>, <<50, 10, 55>>, <<255, 10, 55>> }

\* an archive with Game.gde and plugin_version.txt, if given, and "b"
TweakArchive(gde, plugin) ==
    MkArchive([i \in 1..Len(gde) |->
                  [path_bytes |-> normalized_path_bytes(GameGdePath), data |-> gde[i]]]
              \o [i \in 1..Len(plugin) |->
                  [path_bytes |-> normalized_path_bytes(PluginVersionPath), data |-> plugin[i]]]
              \o << [path_bytes |-> normalized_path_bytes(PathB), data |-> <<2, 3>>] >>,
              100)

TweakArchives ==
    { TweakArchive(gde, plugin) :
        gde \in {<<>>, <<GdeData>>, <<GdeOther>>},
        plugin \in {<<>>} \cup { <<t>> : t \in PluginTexts } }

\* [version-hash]: no entry for the required version, the right hash, the
\* right hash in capitals, another file's hash
VersionHashes ==
    { EmptyMap,
      [v \in {<<49>>} |-> compute_file_hash(GdeData)],
      [v \in {<<49>>} |-> [i \in 1..32 |->
          IF compute_file_hash(GdeData)[i] >= 97 THEN compute_file_hash(GdeData)[i] - 32
          ELSE compute_file_hash(GdeData)[i]]],
      [v \in {<<49>>} |-> compute_file_hash(GdeOther)] }

TweakConfigs ==
    { [ version_config_ok     |-> v,
        required_game_version |-> <<49>>,
        plugin_version        |-> <<55>>,
        version_hashes        |-> h,
        replace_config_ok     |-> r,
        assets_ok             |-> a,
        replacements          |-> << [path |-> PathC, data |-> <<7>>] >>,
        delete_list           |-> d ] :
        v \in BOOLEAN, h \in VersionHashes, r \in BOOLEAN, a \in BOOLEAN,
        d \in {<<>>, <<PathB>>} }

\* no run_tweak is going on
TweakIdle ==
    [ pc |-> "idle", file0 |-> <<>>, has_plugin_version |-> FALSE,
      config |-> [ version_config_ok |-> FALSE, required_game_version |-> <<>>,
                   plugin_version |-> <<>>, version_hashes |-> EmptyMap,
                   replace_config_ok |-> FALSE, assets_ok |-> FALSE,
                   replacements |-> <<>>, delete_list |-> <<>> ] ]

\* the lines of a libraryfolders.vdf: at most MaxPieces of these pieces
MaxPieces == 2

MaxLines == 2

VdfPieces ==
    { <<34, 112, 97, 116, 104, 34>>,            \* "path"
      <<34, 80, 97, 84, 104, 34>>,              \* "PaTh"
      <<34, 49, 50, 34>>,                       \* "12"
      <<34, 34>>,                               \* ""
      <<34, 49, 97, 34>>,                       \* "1a"
      <<9, 34, 47, 97, 34>>,                    \* a tab, then "/a"
      <<32, 34, 68, 58, 92, 92, 83, 34>>,       \* a space, then "D:\\S"
      <<32, 34, 47, 98>>,                       \* a space, then "/b without its closing quote
      <<32, 34, 120, 34>>,                      \* a space, then "x"
      <<34, 92, 34, 47, 99, 34>>,               \* "\"/c"
      <<34, 47, 101, 92>>,                      \* "/e\ without its closing quote
      <<32, 34, 47, 102, 34, 32, 34, 122, 34>>, \* a space, then "/f" "z"
      <<32, 34, 47, 103, 32>>,                  \* a space, "/g without its closing quote, a space
      <<32, 120, 32>> }                         \* x between spaces

VdfLines == { Concat(ps) : ps \in SeqsUpTo(VdfPieces, MaxPieces) }

\* ------------------------------------------------------------ state

VARIABLES
    file,      \* the archive file on disk
    loaded,    \* "no": header and index are not those of the file; "ok"; "err"
    header,    \* the header of the last read_header_and_index
    index,     \* its index: path -> table offset
    pre,       \* the file as it was before the last mutation call
    last,      \* the last mutation call: its arguments and its outcome
    work,      \* batch items handed over so far
    payloads,  \* the [path, data] pairs that successful replace calls were
               \* given and no later successful call was given the path of
    vdf_content,  \* the text of libraryfolders.vdf
    vdf_parsed,   \* parse_libraryfolders_vdf has returned
    vdf_paths,    \* what it returned
    tweak      \* run_tweak: where it stands (pc), the file it opened, its
               \* configuration, what check_plugin_version_txt returned

vdf_vars == <<vdf_content, vdf_parsed, vdf_paths>>

vars == <<file, loaded, header, index, pre, last, work, payloads, vdf_vars, tweak>>

NoCall == [op |-> "none", files |-> <<>>, paths |-> <<>>, result |-> "", em |-> {},
           log |-> <<>>, moved |-> {}, failed |-> ""]

Init ==
    /\ file \in Archives
    /\ loaded = "no"
    /\ header = BaseHeader
    /\ index = EmptyMap
    /\ pre = <<>>
    /\ last = NoCall
    /\ work = 0
    /\ payloads = {}
    /\ vdf_content = <<>>
    /\ vdf_parsed = FALSE
    /\ vdf_paths = <<>>
    /\ tweak = TweakIdle

\* the caller reads header and index from the file (run_tweak does so
\* before each mutation call)
ReadHeaderAndIndex ==
    /\ tweak.pc \in {"idle", "read", "reread"}
    /\ loaded = "no" \/ tweak.pc = "reread"
    /\ \E r \in {read_header_and_index(file)} :
           /\ IF r.ok
              THEN loaded' = "ok" /\ header' = r.header /\ index' = r.index
              ELSE loaded' = "err" /\ UNCHANGED <<header, index>>
           /\ tweak' = after_read(tweak, r.ok)
    /\ UNCHANGED <<file, pre, last, work, payloads, vdf_vars>>

\* a mutation call returns: st is the running state it ends in
Return(op, files, paths, st, result) ==
    /\ file' = st.file
    /\ last' = [op |-> op, files |-> files, paths |-> paths, result |-> result,
                em |-> st.em, log |-> st.log, moved |-> st.moved, failed |-> st.failed]
    /\ pre' = file
    /\ loaded' = "no"
    /\ work' = work + Cost(files \o paths)
    /\ payloads' =
          IF result # "ok" THEN payloads
          ELSE { w \in payloads :
                   /\ \A i \in 1..Len(files) : files[i].path # w.path
                   /\ \A i \in 1..Len(paths) : paths[i] # w.path }
               \cup { files[i] : i \in 1..Len(files) }
    /\ tweak' = after_call(tweak, result)
    /\ UNCHANGED <<header, index, vdf_vars>>

\* the same with the replace loop run before the add loop
append_and_rewrite_replace_first(files, em, inputs, plan, move_targets, fail) ==
    \E moved \in {MoveLoop(StartCall(file, em), move_targets, fail)} :
    \E replaced \in {ReplaceLoop(moved, inputs.replace_inputs, fail)} :
    \E added \in {AddLoop(replaced, inputs.add_inputs, plan.next_new_table_offset, fail)} :
    \E flushed \in {Flush(added, fail)} :
    IF flushed.err # "" THEN Return("replace", files, <<>>, flushed, flushed.err)
    ELSE
    \E recs \in {iter_by_table_offset(flushed.em)} :
    \E min_data_offset \in {MinOffset(flushed.em)} :
    \E recalculated_table_size \in {TableSize(recs)} :
    IF table_overflows(plan.table_start, recalculated_table_size, min_data_offset)
    THEN Return("replace", files, <<>>, flushed, "err_overflow")
    ELSE
    \E written \in {WriteHeaderAndTable(flushed, header, Cardinality(flushed.em),
                                        plan.table_start, recs, fail)} :
    Return("replace", files, <<>>, written, IF written.err # "" THEN written.err ELSE "ok")

\* replace_files_in_pck from AppendCtx::new on: relocations, additions,
\* replacements, flush, the overflow guard, then the header and the table
append_and_rewrite(files, em, inputs, plan, move_targets, fail) ==
    \E moved \in {MoveLoop(StartCall(file, em), move_targets, fail)} :
    \E added \in {AddLoop(moved, inputs.add_inputs, plan.next_new_table_offset, fail)} :
    \E replaced \in {ReplaceLoop(added, inputs.replace_inputs, fail)} :
    \E flushed \in {Flush(replaced, fail)} :
    IF flushed.err # "" THEN Return("replace", files, <<>>, flushed, flushed.err)
    ELSE
    \E recs \in {iter_by_table_offset(flushed.em)} :
    \E min_data_offset \in {MinOffset(flushed.em)} :
    \E recalculated_table_size \in {TableSize(recs)} :
    IF table_overflows(plan.table_start, recalculated_table_size, min_data_offset)
    THEN Return("replace", files, <<>>, flushed, "err_overflow")
    ELSE
    \E written \in {WriteHeaderAndTable(flushed, header, Cardinality(flushed.em),
                                        plan.table_start, recs, fail)} :
    Return("replace", files, <<>>, written, IF written.err # "" THEN written.err ELSE "ok")

\* a replace_files_in_pck without the early return for an empty batch
replace_files_in_pck_no_empty_return(files, fail) ==
    IF HasDuplicate([i \in 1..Len(files) |-> files[i].path])
    THEN Return("replace", files, <<>>, StartCall(file, {}), "err_dup")
    ELSE \E built \in {build_entry_map(file, index)} :
    IF ~built.ok THEN Return("replace", files, <<>>, StartCall(file, {}), "err_build")
    ELSE IF built.map = {} THEN Return("replace", files, <<>>, StartCall(file, {}), "err_empty")
    ELSE
    \E inputs \in {split_inputs(files, built.map)} :
    \E plan \in {plan_table(built.map, inputs.add_inputs)} :
    \E replace_paths \in {{ inputs.replace_inputs[i].path : i \in 1..Len(inputs.replace_inputs) }} :
    \E move_targets \in {SelectSeq(iter_by_table_offset(built.map),
                             LAMBDA r : r.path \notin replace_paths
                                        /\ r.entry.offset < plan.table_end_after)} :
    append_and_rewrite(files, built.map, inputs, plan, move_targets, fail)

\* replace_files_in_pck(pck_file, header, entry_offsets, files), called with
\* the header and index last read, with an injected I/O failure.  files is
\* a sequence of [path, data].  The result is "ok" or the error met.
replace_files_in_pck(files, fail) ==
    IF files = <<>> THEN Return("replace", files, <<>>, StartCall(file, {}), "ok")
    ELSE IF HasDuplicate([i \in 1..Len(files) |-> files[i].path])
    THEN Return("replace", files, <<>>, StartCall(file, {}), "err_dup")
    ELSE \E built \in {build_entry_map(file, index)} :
    IF ~built.ok THEN Return("replace", files, <<>>, StartCall(file, {}), "err_build")
    ELSE IF built.map = {} THEN Return("replace", files, <<>>, StartCall(file, {}), "err_empty")
    ELSE
    \E inputs \in {split_inputs(files, built.map)} :
    \E plan \in {plan_table(built.map, inputs.add_inputs)} :
    \E replace_paths \in {{ inputs.replace_inputs[i].path : i \in 1..Len(inputs.replace_inputs) }} :
    \E move_targets \in {SelectSeq(iter_by_table_offset(built.map),
                             LAMBDA r : r.path \notin replace_paths
                                        /\ r.entry.offset < plan.table_end_after)} :
    append_and_rewrite(files, built.map, inputs, plan, move_targets, fail)

\* delete_files_in_pck(pck_file, header, entry_offsets, paths), called with
\* the header and index last read, with an injected I/O failure
delete_files_in_pck(paths, fail) ==
    IF paths = <<>> THEN Return("delete", <<>>, paths, StartCall(file, {}), "ok")
    ELSE IF HasDuplicate(paths)
    THEN Return("delete", <<>>, paths, StartCall(file, {}), "err_dup")
    ELSE \E built \in {build_entry_map(file, index)} :
    IF ~built.ok THEN Return("delete", <<>>, paths, StartCall(file, {}), "err_build")
    ELSE
    \E existing_to_remove \in {{ p \in { paths[i] : i \in 1..Len(paths) } :
                                    get_by_path(built.map, p) # {} }} :
    IF existing_to_remove = {}
    THEN Return("delete", <<>>, paths, StartCall(file, built.map), "ok")
    ELSE
    \E recs \in {iter_by_table_offset(built.map)} :
    \E table_start \in {recs[1].table_offset} :
    \E remaining \in {remaining_records(recs, existing_to_remove, table_start)} :
    \E st \in {StartCall(file, { remaining[i] : i \in 1..Len(remaining) })} :
    IF remaining = <<>> THEN Return("delete", <<>>, paths, st, "err_none_left")
    ELSE
    \E recalculated_table_size \in {TableSize(remaining)} :
    \E min_data_offset \in {MinOffset(st.em)} :
    IF table_overflows_after_delete(table_start, recalculated_table_size, min_data_offset)
    THEN Return("delete", <<>>, paths, st, "err_overflow")
    ELSE
    \E written \in {WriteHeaderAndTable(st, header, Len(remaining), table_start,
                                        remaining, fail)} :
    \E table_end \in {table_start + recalculated_table_size} :
    \E final_size \in {delete_final_size(table_end, st.em)} :
    \E cut \in {Truncate(written, final_size, fail)} :
    Return("delete", <<>>, paths, cut, IF cut.err # "" THEN cut.err ELSE "ok")

ReplaceFilesInPck ==
    /\ loaded = "ok"
    /\ \E files \in Batches :
           work + Cost(files) <= MaxWork /\ replace_files_in_pck(files, NoFail)

DeleteFilesInPck ==
    /\ loaded = "ok"
    /\ \E paths \in DeleteLists :
           work + Cost(paths) <= MaxWork /\ delete_files_in_pck(paths, NoFail)

Next == ReadHeaderAndIndex \/ ReplaceFilesInPck \/ DeleteFilesInPck

Spec == Init /\ [][Next]_vars

\* the same program making one call, in which a write step may fail
ReplaceFilesInPckIO ==
    /\ loaded = "ok"
    /\ work = 0
    /\ \E files \in Batches, fail \in Fails : replace_files_in_pck(files, fail)

DeleteFilesInPckIO ==
    /\ loaded = "ok"
    /\ work = 0
    /\ \E paths \in DeleteLists, fail \in Fails : delete_files_in_pck(paths, fail)

NextIO == ReadHeaderAndIndex \/ ReplaceFilesInPckIO \/ DeleteFilesInPckIO

SpecIO == Init /\ [][NextIO]_vars

\* steam_library_roots reads some libraryfolders.vdf and parses it: the
\* file is any text of at most MaxLines lines, each ended by a line feed
InitVdf ==
    /\ file = ArchSmall
    /\ loaded = "no"
    /\ header = BaseHeader
    /\ index = EmptyMap
    /\ pre = <<>>
    /\ last = NoCall
    /\ work = 0
    /\ payloads = {}
    /\ vdf_content = <<>>
    /\ vdf_parsed = FALSE
    /\ vdf_paths = <<>>
    /\ tweak = TweakIdle

VdfAppendLine ==
    /\ ~vdf_parsed
    /\ Len(SelectSeq(vdf_content, LAMBDA c : c = 10)) < MaxLines
    /\ \E line \in VdfLines : vdf_content' = vdf_content \o line \o <<10>>
    /\ UNCHANGED <<file, loaded, header, index, pre, last, work, payloads,
                   vdf_parsed, vdf_paths, tweak>>

ParseLibraryfoldersVdf ==
    /\ ~vdf_parsed
    /\ vdf_paths' = parse_libraryfolders_vdf(vdf_content)
    /\ vdf_parsed' = TRUE
    /\ UNCHANGED <<file, loaded, header, index, pre, last, work, payloads, vdf_content,
                   tweak>>

NextVdf == VdfAppendLine \/ ParseLibraryfoldersVdf

SpecVdf == InitVdf /\ [][NextVdf]_vars

\* run_tweak on some archive with some configuration: the file is opened,
\* then header and index are read (ReadHeaderAndIndex)
InitTweak ==
    /\ file \in TweakArchives
    /\ loaded = "no"
    /\ header = BaseHeader
    /\ index = EmptyMap
    /\ pre = <<>>
    /\ last = NoCall
    /\ work = 0
    /\ payloads = {}
    /\ vdf_content = <<>>
    /\ vdf_parsed = FALSE
    /\ vdf_paths = <<>>
    /\ \E c \in TweakConfigs :
           tweak = [pc |-> "read", file0 |-> file, has_plugin_version |-> FALSE, config |-> c]

\* a step of run_tweak that touches neither the file nor header and index
TweakStep(pc) ==
    /\ tweak' = [tweak EXCEPT !.pc = pc]
    /\ UNCHANGED <<file, loaded, header, index, pre, last, work, payloads, vdf_vars>>

ParseVersionConfig ==
    /\ tweak.pc = "version_config"
    /\ TweakStep(IF tweak.config.version_config_ok THEN "plugin_version" ELSE "failed")

CheckPluginVersionTxt ==
    /\ tweak.pc = "plugin_version"
    /\ \E c \in {check_plugin_version_txt(file, index, tweak.config)} :
           /\ tweak' = [tweak EXCEPT !.has_plugin_version = c.has,
                                     !.pc = IF ~c.ok THEN "failed"
                                            ELSE IF c.has THEN "config" ELSE "game_gde"]
           /\ UNCHANGED <<file, loaded, header, index, pre, last, work, payloads, vdf_vars>>

CheckGameGdeHash ==
    /\ tweak.pc = "game_gde"
    /\ TweakStep(IF check_game_gde_hash(file, index, tweak.config) THEN "config" ELSE "failed")

ParseConfig ==
    /\ tweak.pc = "config"
    /\ TweakStep(IF ~(tweak.config.replace_config_ok /\ tweak.config.assets_ok) THEN "failed"
                 ELSE IF tweak.config.delete_list # <<>> THEN "delete" ELSE "reread")

TweakDelete ==
    /\ tweak.pc = "delete"
    /\ delete_files_in_pck(tweak.config.delete_list, NoFail)

TweakReplace ==
    /\ tweak.pc = "replace"
    /\ replace_files_in_pck(
           tweak.config.replacements
             \o << [path |-> PluginVersionPath,
                    data |-> create_plugin_version_content(tweak.config)] >>,
           NoFail)

NextTweak ==
    \/ ReadHeaderAndIndex
    \/ ParseVersionConfig
    \/ CheckPluginVersionTxt
    \/ CheckGameGdeHash
    \/ ParseConfig
    \/ TweakDelete
    \/ TweakReplace

SpecTweak == InitTweak /\ [][NextTweak]_vars

\* ------------------------------------------------------------ claims
\* What the claims observe.  In the state a mutation call returns in,
\* (loaded = "no"), header and index are still the ones the call was given,
\* pre is the file before the call and file the file after it.

Returned(op) == last.op = op /\ loaded = "no"

Succeeded(op) == Returned(op) /\ last.result = "ok"

\* the archive the call was given holds no path twice
UniquePaths == header.file_count = Cardinality(DOMAIN index)

BatchPaths == { last.files[i].path : i \in 1..Len(last.files) }

\* the record stored at the table offset the path had before the call
RecordBefore(p) == RawFileEntry_read(pre, index[p])

RecordAfter(p) == RawFileEntry_read(file, index[p])

FileCount(f) == Header_read(f).header.file_count

\* the file holds exactly data where the entry says its data is
HoldsData(f, e, data) ==
    /\ e.size = Len(data)
    /\ e.offset + e.size <= Len(f)
    /\ ReadAt(f, e.offset, e.size) = data

\* C1: after a successful replace_files_in_pck on an archive with unique
\* paths, the record of every batch path that was already in the archive
\* (at its unchanged table offset, with its unchanged path) has the size and
\* the MD5 of the new payload and a data offset where the file holds exactly
\* the new payload; file_count grew by the number of batch paths that were
\* not in the archive; every pre-existing record keeps its path.
C1_ReplaceUpdatesEntry ==
    (Succeeded("replace") /\ UniquePaths) =>
        /\ \A i \in 1..Len(last.files) :
              LET it == last.files[i]
              IN  it.path \in DOMAIN index =>
                    LET r == RecordAfter(it.path)
                    IN  /\ r.ok
                        /\ RawFileEntry_path(r.entry) = it.path
                        /\ r.entry.md5 = Md5(it.data)
                        /\ HoldsData(file, r.entry, it.data)
        /\ Header_read(file).ok
        /\ FileCount(file) = header.file_count + Cardinality(BatchPaths \ DOMAIN index)
        /\ \A p \in DOMAIN index :
              RecordAfter(p).ok /\ RawFileEntry_path(RecordAfter(p).entry) = p

\* a replace-only batch succeeded and changed the size of an entry
C1_Witness ==
    /\ Succeeded("replace") /\ UniquePaths
    /\ BatchPaths # {} /\ BatchPaths \subseteq DOMAIN index
    /\ \E i \in 1..Len(last.files) :
          RecordBefore(last.files[i].path).entry.size # Len(last.files[i].data)

\* the table as it is stored: file_count records parsed one after the other
\* from the end of the header
RECURSIVE ParseTable(_, _, _)
ParseTable(f, pos, n) ==
    IF n = 0 THEN <<>>
    ELSE LET r == RawFileEntry_read(f, pos)
         IN  IF ~r.ok THEN <<>>
             ELSE <<[table_offset |-> pos, entry |-> r.entry]>> \o ParseTable(f, r.next, n - 1)

DiskTable(f) == IF Header_read(f).ok THEN ParseTable(f, 88, FileCount(f)) ELSE <<>>

Relocated ==
    last.moved \cup
    { p \in (DOMAIN index) \ BatchPaths :
        RecordAfter(p).ok /\ RecordAfter(p).entry.offset # RecordBefore(p).entry.offset }

\* C3: after a successful replace_files_in_pck (header and table rewritten),
\* for every relocated entry the size bytes the file holds at the entry's
\* new data offset are the size bytes that were at its old data offset
\* before the call, and its size and checksum are unchanged.
C3_RelocationKeepsBytes ==
    (Succeeded("replace") /\ UniquePaths) =>
        \A p \in Relocated :
            /\ p \in DOMAIN index
            /\ RecordAfter(p).ok
            /\ RecordAfter(p).entry.size = RecordBefore(p).entry.size
            /\ RecordAfter(p).entry.md5 = RecordBefore(p).entry.md5
            /\ HoldsData(file, RecordAfter(p).entry,
                         ReadAt(pre, RecordBefore(p).entry.offset, RecordBefore(p).entry.size))

\* two entries with data were relocated, and the rewritten table now covers
\* the place the data of one of them was at
C3_Witness ==
    /\ Succeeded("replace") /\ UniquePaths
    /\ Cardinality(last.moved) = 2
    /\ \E p \in last.moved :
          /\ RecordBefore(p).entry.size > 0
          /\ RecordAfter(p).entry.offset >= Len(pre)
          /\ \E i \in 1..Len(last.log) :
                /\ last.log[i].kind = "table"
                /\ RecordBefore(p).entry.offset < last.log[i].at + last.log[i].len

\* the end of the table of an entry index: the table offset of its first
\* record plus the record sizes of all its records
IndexTableEnd(em) ==
    LET recs == iter_by_table_offset(em)
    IN  recs[1].table_offset
        + SumSeq([i \in 1..Len(recs) |-> 4 + recs[i].entry.path_len + 32])

LogKinds == { last.log[i].kind : i \in 1..Len(last.log) }

\* C4: a replace_files_in_pck call that got as far as the guard returns the
\* overflow error exactly when the table of its final index would end above
\* the smallest data offset; it then has written neither header nor table
\* (the file up to its old length is unchanged).  After a successful call
\* no entry's data offset is below the end of the table that was written.
C4_OverflowGuard ==
    (Returned("replace") /\ last.files # <<>> /\ last.result \in {"ok", "err_overflow"}) =>
        /\ (last.result = "err_overflow")
              <=> (IndexTableEnd(last.em) > MinOffset(last.em))
        /\ last.result = "err_overflow" =>
              /\ LogKinds \cap {"header", "table"} = {}
              /\ SubSeq(file, 1, Len(pre)) = pre
        /\ last.result = "ok" =>
              /\ \A i \in 1..Len(last.log) :
                    last.log[i].kind = "table" =>
                        /\ last.log[i].at + last.log[i].len = IndexTableEnd(last.em)
                        /\ \A r \in last.em : r.entry.offset >= last.log[i].at + last.log[i].len
              /\ UniquePaths =>
                    \A k \in 1..Len(DiskTable(file)) :
                        DiskTable(file)[k].entry.offset
                            >= 88 + SumSeq([j \in 1..Len(DiskTable(file)) |->
                                        4 + DiskTable(file)[j].entry.path_len + 32])

\* the guard fired after data had been appended
C4_Witness ==
    /\ Returned("replace") /\ last.result = "err_overflow"
    /\ Len(file) > Len(pre)
    /\ last.moved # {}

\* C5: when the batch of a replace_files_in_pck call holds the same path
\* twice, the call returns the duplicate-path error, the file is in bytes
\* and in length what it was before the call, and no append, header write or
\* table write has happened, whether the archive has the path or not.
C5_DuplicateBatchRejected ==
    (Returned("replace") /\ Cardinality(BatchPaths) < Len(last.files)) =>
        /\ last.result = "err_dup"
        /\ file = pre
        /\ Len(file) = Len(pre)
        /\ last.log = <<>>

\* a batch was rejected whose first and third item are an entry of the
\* archive and whose second item is another path
C5_Witness ==
    /\ Returned("replace") /\ last.result = "err_dup"
    /\ Len(last.files) = 3
    /\ last.files[1].path = last.files[3].path
    /\ last.files[1].path # last.files[2].path
    /\ last.files[1].path \in DOMAIN index
    /\ file = pre

\* the bytes lo+1..hi of f and of g are there and are the same
SameBytes(f, g, lo, hi) ==
    /\ Len(f) >= hi /\ Len(g) >= hi
    /\ SubSeq(f, lo + 1, hi) = SubSeq(g, lo + 1, hi)

\* the end of the table stored in the file the call was given
OldTableEnd ==
    88 + SumSeq([k \in 1..Len(DiskTable(pre)) |-> 4 + DiskTable(pre)[k].entry.path_len + 32])

\* the header and the table of the call's final index, as bytes
NewHeaderBytes == Header_write([header EXCEPT !.file_count = Cardinality(last.em)])

NewTableBytes == TableBytes(iter_by_table_offset(last.em))

HeaderTableOld == SameBytes(file, pre, 0, OldTableEnd)

HeaderTableNew ==
    /\ last.em # {}
    /\ Len(file) >= 88 + Len(NewTableBytes)
    /\ SubSeq(file, 1, 88) = NewHeaderBytes
    /\ SubSeq(file, 89, 88 + Len(NewTableBytes)) = NewTableBytes

\* C6 as stated: in every state a replace_files_in_pck call has returned in,
\* with any one write step failing, header and table on disk are together
\* the pre-call ones or the complete new ones.
C6_AllOrNothing ==
    Returned("replace") => (HeaderTableOld \/ HeaderTableNew)

\* C6 as amended: header and table on disk are exactly the pre-call ones when
\* the call returns an error from a step before the header write (the
\* validation, an append, the flush, the overflow guard), and exactly the
\* complete new ones when it returns success.  When the header write fails
\* the table is the old one under a header that is new up to the byte the
\* write stopped at; when the table write fails the header is the new one.
C6_HeaderTableByFailedStep ==
    Returned("replace") =>
        /\ (last.result = "ok" /\ last.files # <<>>) => HeaderTableNew
        /\ (last.result = "ok" /\ last.files = <<>>) => file = pre
        /\ (last.result # "ok" /\ last.failed \notin {"header", "table"}) =>
              /\ HeaderTableOld
              /\ LogKinds \cap {"header", "table"} = {}
        /\ last.failed = "header" =>
              /\ SameBytes(file, pre, 88, OldTableEnd)
              /\ \E k \in 0..88 :
                    SubSeq(file, 1, 88) = SubSeq(NewHeaderBytes, 1, k) \o SubSeq(pre, k + 1, 88)
        /\ last.failed = "table" => SubSeq(file, 1, 88) = NewHeaderBytes

\* an append failed after a relocation had been copied to the end of the
\* file: the file grew, header and table are the old ones
C6_Witness ==
    /\ Returned("replace")
    /\ last.result = "err_io" /\ last.failed \in {"add", "replace"}
    /\ last.moved # {}
    /\ Len(file) > Len(pre)
    /\ HeaderTableOld

\* the place of a write step in the order the claim gives
Rank(kind) ==
    CASE kind = "move"    -> 1
      [] kind = "add"     -> 2
      [] kind = "replace" -> 3
      [] kind = "flush"   -> 4
      [] kind = "header"  -> 5
      [] kind = "table"   -> 6
      [] OTHER            -> 7

\* the write steps of the last call that appended data
Appends == { i \in 1..Len(last.log) : Rank(last.log[i].kind) <= 3 }

\* the data offset the final index of the last call has for a path
FinalOffset(p) == (CHOOSE r \in last.em : r.path = p).entry.offset

\* the write steps of the last call came in the claim's order, and every
\* append wrote at or above the old end of the file
InClaimedOrder ==
    /\ \A i, j \in 1..Len(last.log) :
          i < j => Rank(last.log[i].kind) <= Rank(last.log[j].kind)
    /\ \A i \in Appends : last.log[i].at >= Len(pre)
    /\ \A i \in 1..Len(last.log) :
          Rank(last.log[i].kind) \in {5, 6} => last.log[i].at + last.log[i].len <= Len(pre)

\* C7 as stated: after a successful replace_files_in_pck the writes came in
\* the order relocations, additions, replacements, flush, header, table, and
\* every relocated entry's new data offset is smaller than every added
\* entry's, which is smaller than every replaced entry's.
C7_StrictOffsets ==
    (Succeeded("replace") /\ last.files # <<>>) =>
        /\ InClaimedOrder
        /\ \A i, j \in Appends :
              Rank(last.log[i].kind) < Rank(last.log[j].kind)
                 => FinalOffset(last.log[i].path) < FinalOffset(last.log[j].path)

\* C7 as amended: the writes of a replace_files_in_pck call come in the
\* order relocations, additions, replacements, flush, header, table; every
\* append writes at or above the old end of the file and header and table
\* are written below it, after the last append.  After a successful call an
\* entry appended in an earlier class has its data end at or below the data
\* offset of every entry of a later class: its offset is not greater, and
\* is smaller unless its data is empty.
C7_WriteOrder ==
    (Returned("replace") /\ last.files # <<>>) =>
        /\ InClaimedOrder
        /\ \A i, j \in Appends : i < j => last.log[i].at + last.log[i].len <= last.log[j].at
        /\ last.result = "ok" =>
              /\ \A k \in {"flush", "header", "table"} :
                    Cardinality({ i \in 1..Len(last.log) : last.log[i].kind = k }) = 1
              /\ \A i \in Appends :
                    /\ \E r \in last.em : r.path = last.log[i].path
                    /\ FinalOffset(last.log[i].path) = last.log[i].at
              /\ \A i, j \in Appends :
                    Rank(last.log[i].kind) < Rank(last.log[j].kind) =>
                       /\ FinalOffset(last.log[i].path) + last.log[i].len
                             <= FinalOffset(last.log[j].path)
                       /\ (last.log[i].len > 0 =>
                             FinalOffset(last.log[i].path) < FinalOffset(last.log[j].path))

\* one call relocated an entry, added a path and replaced an entry
C7_Witness ==
    /\ Succeeded("replace")
    /\ { last.log[i].kind : i \in Appends } = {"move", "add", "replace"}
    /\ \A i \in Appends : last.log[i].len > 0
    /\ \E i \in 1..Len(last.log) : last.log[i].kind = "table"

ListedPaths == { last.paths[i] : i \in 1..Len(last.paths) }

\* the paths of the records stored in a file's table
DiskPaths(f) == { RawFileEntry_path(DiskTable(f)[k].entry) : k \in 1..Len(DiskTable(f)) }

C9_FileLengthAfterDelete ==
    (Succeeded("delete") /\ UniquePaths /\ ListedPaths \cap DOMAIN index # {}) =>
        LET t == DiskTable(file)
            table_end == 88 + SumSeq([k \in 1..Len(t) |-> 4 + t[k].entry.path_len + 32])
            ends == { t[k].entry.offset + t[k].entry.size : k \in 1..Len(t) }
        IN  /\ t # <<>>
            /\ Len(t) = FileCount(file)
            /\ \E m \in ends :
                  /\ \A e \in ends : e <= m
                  /\ Len(file) = IF table_end > m THEN table_end ELSE m
            /\ \A k \in 1..Len(t) :
                  /\ t[k].entry.offset + t[k].entry.size <= Len(file)
                  /\ t[k].entry.offset + t[k].entry.size <= Len(pre) =>
                        ReadAt(file, t[k].entry.offset, t[k].entry.size)
                           = ReadAt(pre, t[k].entry.offset, t[k].entry.size)

\* the deleted entry's data was at the end of the file: the file got
\* shorter, down to the data end of a remaining entry
C9_Witness ==
    /\ Succeeded("delete") /\ UniquePaths
    /\ ListedPaths \cap DOMAIN index # {}
    /\ Len(file) < Len(pre)
    /\ \E k \in 1..Len(DiskTable(file)) :
          /\ DiskTable(file)[k].entry.size > 0
          /\ DiskTable(file)[k].entry.offset + DiskTable(file)[k].entry.size = Len(file)

\* the file the last call was given held no path twice
PreUniquePaths ==
    LET r == read_header_and_index(pre)
    IN  r.ok /\ r.header.file_count = Cardinality(DOMAIN r.index)

\* header and index have been read again from the file a successful call
\* that rewrote the table left
RereadAfterWrite ==
    /\ loaded # "no"
    /\ last.op \in {"replace", "delete"}
    /\ last.result = "ok"
    /\ "table" \in LogKinds

\* what the claim says of the re-read header and index
RereadAgrees ==
    /\ loaded = "ok"
    /\ header.file_count = Cardinality(last.em)
    /\ DOMAIN index = { r.path : r \in last.em }
    /\ \A r \in last.em :
          r.path \in DOMAIN index =>
             LET e == RawFileEntry_read(file, index[r.path])
             IN  /\ e.ok
                 /\ e.entry.offset = r.entry.offset
                 /\ e.entry.size = r.entry.size
                 /\ e.entry.md5 = r.entry.md5
    /\ Len(DiskTable(file)) = header.file_count
    /\ { DiskTable(file)[k].table_offset : k \in 1..Len(DiskTable(file)) }
          = { index[p] : p \in DOMAIN index }

\* C10: after a successful replace_files_in_pck or delete_files_in_pck on an
\* archive with unique paths, read_header_and_index on the resulting file
\* returns a file_count equal to the number of entries of the call's final
\* index and the final index's paths, the record at each returned table
\* offset carries that entry's data offset, size and checksum, and the
\* table offsets returned are those of a contiguous run of file_count
\* records after the header.
C10_WriteThenRereadAgree ==
    (RereadAfterWrite /\ PreUniquePaths) => RereadAgrees

\* the same for the calls whose batch has no path ending in a NUL character
C10_AgreeWithoutTrailingNul ==
    (/\ RereadAfterWrite /\ PreUniquePaths
     /\ \A p \in BatchPaths : TrimNul(p) = p) => RereadAgrees

\* every record of the table stored in f has its data inside f
EntriesWithin(f) ==
    /\ Header_read(f).ok
    /\ Len(DiskTable(f)) = FileCount(f)
    /\ \A k \in 1..Len(DiskTable(f)) :
          DiskTable(f)[k].entry.offset + DiskTable(f)[k].entry.size <= Len(f)

\* C11: a successful replace_files_in_pck or delete_files_in_pck call, given
\* the header and index just read from a file in which every entry's data
\* offset + size is at most the file length, leaves a file in which every
\* entry of the table has data offset + size at most the file length (so
\* this stays true along any sequence of successful calls).
C11_DataStaysWithinFile ==
    (last.op \in {"replace", "delete"} /\ loaded = "no" /\ last.result = "ok"
       /\ EntriesWithin(pre)) => EntriesWithin(file)

\* the same for calls on an archive with unique paths whose batch has no
\* path ending in a NUL character
C11_WithinFileWithoutTrailingNul ==
    (last.op \in {"replace", "delete"} /\ loaded = "no" /\ last.result = "ok"
       /\ EntriesWithin(pre) /\ PreUniquePaths
       /\ \A p \in BatchPaths : TrimNul(p) = p)
    => (EntriesWithin(file)
        /\ read_header_and_index(file).ok
        /\ FileCount(file) = Cardinality(DOMAIN read_header_and_index(file).index))

\* the table stored in f has a record for path w.path (its path bytes are
\* the padded path, or decode to the path) whose checksum is the MD5 of
\* w.data and whose data range in f holds w.data
StoredWithChecksum(f, w) ==
    \E k \in 1..Len(DiskTable(f)) :
        LET e == DiskTable(f)[k].entry
        IN  /\ (e.path_bytes = normalized_path_bytes(w.path)
                   \/ RawFileEntry_path(e) = w.path)
            /\ e.md5 = Md5(w.data)
            /\ HoldsData(f, e, w.data)
            /\ e.md5 = Md5(ReadAt(f, e.offset, e.size))

\* C12: every entry a successful replace_files_in_pck call added or
\* replaced has a stored checksum that is the MD5 of the bytes the file
\* holds at [offset, offset + size), and these bytes are the payload the
\* call was given; this stays so through every later call that does not
\* replace or delete that path.
C12_ChecksumMatchesData ==
    \A w \in payloads : StoredWithChecksum(file, w)

\* the same for runs in which no batch had a path ending in a NUL character
C12_ChecksumWithoutTrailingNul ==
    (\A w \in payloads : TrimNul(w.path) = w.path) =>
        \A w \in payloads : StoredWithChecksum(file, w)

\* C13: replace_files_in_pck with an empty batch and delete_files_in_pck
\* with an empty path list return success without reading an entry or
\* writing anything: the file has the bytes and the length it had.
C13_EmptyInputIsNoOp ==
    /\ (Returned("replace") /\ last.files = <<>>) =>
          (last.result = "ok" /\ file = pre /\ Len(file) = Len(pre)
             /\ last.log = <<>> /\ last.em = {})
    /\ (Returned("delete") /\ last.paths = <<>>) =>
          (last.result = "ok" /\ file = pre /\ Len(file) = Len(pre)
             /\ last.log = <<>> /\ last.em = {})

\* an empty batch was handed over after an earlier call had changed the file
C13_Witness ==
    /\ Returned("replace") /\ last.files = <<>>
    /\ last.result = "ok" /\ file = pre
    /\ work >= 2
    /\ file \notin Archives

\* C14: delete_files_in_pck returns an error when every entry of the
\* archive is listed; this error, the error for a path listed twice and the
\* error for a table that would end above the smallest remaining data offset
\* are raised before any write: the file (header, table, data, length) is
\* what it was before the call.
C14_DeleteValidationBeforeWrite ==
    Returned("delete") =>
        /\ (UniquePaths /\ Cardinality(ListedPaths) = Len(last.paths)
              /\ DOMAIN index \subseteq ListedPaths)
              => last.result = "err_none_left"
        /\ Cardinality(ListedPaths) < Len(last.paths) => last.result = "err_dup"
        /\ (last.result = "ok" /\ last.log # <<>>) =>
              /\ DiskTable(file) # <<>>
              /\ \A k \in 1..Len(DiskTable(file)) :
                    DiskTable(file)[k].entry.offset >= IndexTableEnd(last.em)
        /\ last.result \in {"err_none_left", "err_dup", "err_overflow"} =>
              /\ file = pre
              /\ Len(file) = Len(pre)
              /\ last.log = <<>>

\* both entries of an archive were listed, with a path it does not have
C14_Witness ==
    /\ Returned("delete") /\ UniquePaths
    /\ last.result = "err_none_left"
    /\ Len(last.paths) = 3
    /\ Cardinality(DOMAIN index) = 2
    /\ file = pre

\* the little-endian 32-bit field at bytes lo+1..lo+4 of the file
FieldAt(lo) ==
    file[lo + 1] + 256 * file[lo + 2] + 65536 * file[lo + 3] + 16777216 * file[lo + 4]

\* C15: read_header_and_index returns an error, and neither a header nor
\* an index, when the first four bytes of the file are not "GDPC", when its
\* version field is not 1 or when its file_count field is 0; the header a
\* successful replace_files_in_pck or delete_files_in_pck call has written
\* has the magic, version 1 and a file_count of at least 1, and is read
\* back without error.
C15_HeaderValidated ==
    /\ (loaded # "no" /\ Len(file) >= 88
          /\ (SubSeq(file, 1, 4) # <<71, 68, 80, 67>>
                \/ FieldAt(4) # 1 \/ FieldAt(84) = 0))
          => (/\ loaded = "err"
              /\ DOMAIN read_header_and_index(file) = {"ok"}
              /\ ~read_header_and_index(file).ok)
    /\ (last.op \in {"replace", "delete"} /\ last.result = "ok" /\ last.log # <<>>)
          => (/\ SubSeq(file, 1, 4) = <<71, 68, 80, 67>>
              /\ FieldAt(4) = 1
              /\ FieldAt(84) >= 1
              /\ Header_read(file).ok
              /\ loaded # "no" => loaded = "ok")

\* a file with the magic and version 1 but a file_count of 0 was refused
C15_Witness ==
    /\ loaded = "err"
    /\ SubSeq(file, 1, 4) = <<71, 68, 80, 67>>
    /\ FieldAt(4) = 1
    /\ FieldAt(84) = 0

\* the lines of a text as the claim counts them: the k-th line is what
\* stands between the (k-1)-th and the k-th line feed
LineFeeds(c) == { i \in 1..Len(c) : c[i] = 10 }

LineOf(c, k) ==
    LET from == IF k = 1 THEN 1
                ELSE 1 + CHOOSE i \in LineFeeds(c) :
                              Cardinality({ j \in LineFeeds(c) : j < i }) = k - 2
        upto == IF k = Cardinality(LineFeeds(c)) + 1 THEN Len(c)
                ELSE (CHOOSE i \in LineFeeds(c) :
                          Cardinality({ j \in LineFeeds(c) : j < i }) = k - 1) - 1
    IN  SubSeq(c, from, upto)

\* inside the quoted string opened at q, the character at j is the one
\* after a dropped backslash: an odd number of backslashes stands right
\* before it
EscapedAt(l, q, j) ==
    Cardinality({ m \in 1..(j - q - 1) : \A t \in 1..m : l[j - t] = 92 }) % 2 = 1

\* the quotes that close the quoted string opened at q
ClosingQuotes(l, q) ==
    { j \in (q + 1)..Len(l) : l[j] = 34 /\ ~EscapedAt(l, q, j) }

MinOf(S) == CHOOSE x \in S : \A y \in S : x <= y

\* the text of the quoted string between the quote at q and position e:
\* backslashes are dropped, the character after a dropped backslash stays
RECURSIVE QuotedText(_, _, _, _)
QuotedText(l, q, i, e) ==
    IF i >= e THEN <<>>
    ELSE (IF EscapedAt(l, q, i) \/ l[i] # 92 THEN <<l[i]>> ELSE <<>>)
         \o QuotedText(l, q, i + 1, e)

\* a line without the white space at its two ends
TrimmedLine(l) ==
    LET inked == { i \in 1..Len(l) : l[i] \notin {9, 10, 11, 12, 13, 32} }
    IN  IF inked = {} THEN <<>>
        ELSE SubSeq(l, MinOf(inked), CHOOSE i \in inked : \A j \in inked : j <= i)

\* the first two quoted strings of a line.  With open_end, the second one
\* may lack its closing quote and then ends with the line.
KeyValue(l, open_end) ==
    LET quotes1 == { i \in 1..Len(l) : l[i] = 34 }
    IN  IF quotes1 = {} THEN [some |-> FALSE]
        ELSE LET q1 == MinOf(quotes1)
             IN  IF ClosingQuotes(l, q1) = {} THEN [some |-> FALSE]
                 ELSE LET e1 == MinOf(ClosingQuotes(l, q1))
                          quotes2 == { i \in (e1 + 1)..Len(l) : l[i] = 34 }
                      IN  IF quotes2 = {} THEN [some |-> FALSE]
                          ELSE LET q2 == MinOf(quotes2)
                               IN  IF ClosingQuotes(l, q2) = {} /\ ~open_end
                                   THEN [some |-> FALSE]
                                   ELSE LET e2 == IF ClosingQuotes(l, q2) = {}
                                                  THEN Len(l) + 1
                                                  ELSE MinOf(ClosingQuotes(l, q2))
                                        IN  [some  |-> TRUE,
                                             key   |-> QuotedText(l, q1, q1 + 1, e1),
                                             value |-> QuotedText(l, q2, q2 + 1, e2)]

\* what the claim has a line contribute
LineValue(l, open_end) ==
    LET kv == KeyValue(IF open_end THEN TrimmedLine(l) ELSE l, open_end)
    IN  IF ~kv.some THEN <<>>
        ELSE IF [i \in 1..Len(kv.key) |-> to_ascii_lowercase(kv.key[i])] = <<112, 97, 116, 104>>
        THEN (IF kv.value # <<>> THEN <<kv.value>> ELSE <<>>)
        ELSE IF (\A i \in 1..Len(kv.key) : kv.key[i] \in 48..57) /\ looks_like_path(kv.value)
        THEN <<kv.value>>
        ELSE <<>>

ClaimedPaths(c, open_end) ==
    Concat([k \in 1..(Cardinality(LineFeeds(c)) + 1) |-> LineValue(LineOf(c, k), open_end)])

\* C16 as stated: parse_libraryfolders_vdf returns, in line order, the
\* value of every line that contains two quoted strings and whose key is
\* path (in any case) with a non-empty value, or whose key has only digits
\* and whose value looks like a path; inside quotes a backslash is dropped
\* and the character after it taken as it is; other lines give nothing.
C16_TwoClosedQuotedStrings ==
    vdf_parsed => vdf_paths = ClaimedPaths(vdf_content, FALSE)

\* C16 as amended: the same, where the second quoted string of a line need
\* not have its closing quote: without one it ends where the line ends once
\* the white space at the line's end is taken off.
C16_SecondStringMayStayOpen ==
    vdf_parsed => vdf_paths = ClaimedPaths(vdf_content, TRUE)

\* two lines, a path key in capitals and a digit key, gave two values in
\* line order, one of them with an unescaped backslash
C16_Witness ==
    /\ vdf_parsed
    /\ vdf_paths = << <<68, 58, 92, 83>>, <<47, 97>> >>
    /\ vdf_content = <<34, 80, 97, 84, 104, 34, 32, 34, 68, 58, 92, 92, 83, 34, 10,
                       34, 49, 50, 34, 9, 34, 47, 97, 34, 10>>

\* the last replace_files_in_pck call got as far as its overflow guard
ReachedGuard ==
    Returned("replace") /\ last.files # <<>> /\ last.result \in {"ok", "err_overflow"}

\* C17 as stated: replace_files_in_pck returns the overflow error whenever
\* table_start + the recomputed table size reaches or exceeds the smallest
\* data offset, also when the table would end exactly where the lowest data
\* begins.
C17_AbortsWhenTableReachesData ==
    (ReachedGuard /\ IndexTableEnd(last.em) >= MinOffset(last.em))
        => last.result = "err_overflow"

\* C17 as amended: replace_files_in_pck returns the overflow error when
\* table_start + the recomputed table size exceeds the smallest data
\* offset, and only then; when the table ends exactly where the lowest data
\* begins the call succeeds and writes a table that ends at that offset.
C17_AbortsOnlyWhenTableExceedsData ==
    ReachedGuard =>
        /\ IndexTableEnd(last.em) > MinOffset(last.em) => last.result = "err_overflow"
        /\ IndexTableEnd(last.em) < MinOffset(last.em) => last.result = "ok"
        /\ IndexTableEnd(last.em) = MinOffset(last.em) =>
              /\ last.result = "ok"
              /\ \E i \in 1..Len(last.log) :
                    /\ last.log[i].kind = "table"
                    /\ last.log[i].at + last.log[i].len = MinOffset(last.em)

\* a call that added a path succeeded with a table ending at the first byte
\* of the lowest data
C17_Witness ==
    /\ ReachedGuard /\ last.result = "ok"
    /\ IndexTableEnd(last.em) = MinOffset(last.em)
    /\ UniquePaths
    /\ BatchPaths \ DOMAIN index # {}

\* C18: when replace_files_in_pck returns the overflow error, every byte of
\* the file below the pre-call length (header and table included) is what
\* it was, every write was an append at or above the pre-call end of the
\* file, and the file cut back to its pre-call length is the pre-call file.
C18_OverflowLeavesOldBytes ==
    (Returned("replace") /\ last.result = "err_overflow") =>
        /\ Len(file) >= Len(pre)
        /\ \A i \in 1..Len(pre) : file[i] = pre[i]
        /\ set_len(file, Len(pre)) = pre
        /\ read_header_and_index(file) = read_header_and_index(pre)
        /\ \A i \in 1..Len(last.log) :
              /\ last.log[i].kind \in {"move", "add", "replace", "flush"}
              /\ last.log[i].at >= Len(pre)
        /\ Len(file) = Len(pre) + SumSeq([i \in 1..Len(last.log) |-> last.log[i].len])

\* the call had relocated an entry and appended a payload before the guard
\* refused the table
C18_Witness ==
    /\ Returned("replace") /\ last.result = "err_overflow"
    /\ last.moved # {}
    /\ \E i \in 1..Len(last.log) : last.log[i].kind = "add" /\ last.log[i].len > 0
    /\ Len(file) > Len(pre) + 1
    /\ file # pre

\* the size of the record of a path that is added: the path is padded to a
\* multiple of four bytes
AddedRecordSize(p) == 4 + 4 * ((Len(p) + 3) \div 4) + 32

\* table_start of the index the call was given: its lowest table offset
IndexTableStart ==
    CHOOSE t \in { index[p] : p \in DOMAIN index } : \A p \in DOMAIN index : t <= index[p]

\* the sum of the record sizes of the given paths of the index, the records
\* read from the file the call was given
RECURSIVE RecordSizes(_)
RecordSizes(ps) ==
    IF ps = {} THEN 0
    ELSE LET p == CHOOSE q \in ps : TRUE
         IN  4 + RecordBefore(p).entry.path_len + 32 + RecordSizes(ps \ {p})

\* table_end_after as the claim gives it: table_start plus the size of the
\* table of the index plus the record sizes of the batch paths the archive
\* did not have
ClaimedTableEndAfter ==
    LET added == SelectSeq(last.files, LAMBDA it : it.path \notin DOMAIN index)
    IN  IndexTableStart + RecordSizes(DOMAIN index)
          + SumSeq([i \in 1..Len(added) |-> AddedRecordSize(added[i].path)])

\* the paths whose data the last call copied to the end of the file
CopiedPaths ==
    { last.log[i].path : i \in { j \in 1..Len(last.log) : last.log[j].kind = "move" } }

\* C19: a replace_files_in_pck call copies an existing entry's data to the
\* end of the file if and only if the path is not in the batch and the data
\* offset is below table_end_after; an entry of the batch is never
\* relocated; after a successful call every existing entry that is neither
\* relocated nor in the batch has the data offset, size and checksum it had.
\* On an archive with unique paths table_end_after is the end of the stored
\* table plus the record sizes of the added paths, and the stored records
\* show the same as the index.
C19_RelocatedIffBelowTableEnd ==
    ReachedGuard =>
        /\ UniquePaths =>
              /\ IndexTableStart = 88
              /\ IndexTableStart + RecordSizes(DOMAIN index) = OldTableEnd
        /\ CopiedPaths =
              { p \in DOMAIN index :
                  /\ p \notin BatchPaths
                  /\ RecordBefore(p).entry.offset < ClaimedTableEndAfter }
        /\ CopiedPaths = last.moved
        /\ CopiedPaths \cap BatchPaths = {}
        /\ Cardinality({ j \in 1..Len(last.log) : last.log[j].kind = "move" })
              = Cardinality(CopiedPaths)
        /\ last.result = "ok" =>
              /\ \A p \in (DOMAIN index) \ (CopiedPaths \cup BatchPaths) :
                    /\ \E r \in last.em :
                          /\ r.path = p
                          /\ r.entry.offset = RecordBefore(p).entry.offset
                          /\ r.entry.size = RecordBefore(p).entry.size
                          /\ r.entry.md5 = RecordBefore(p).entry.md5
                    /\ UniquePaths =>
                          /\ RecordAfter(p).ok
                          /\ RecordAfter(p).entry.offset = RecordBefore(p).entry.offset
                          /\ RecordAfter(p).entry.size = RecordBefore(p).entry.size
                          /\ RecordAfter(p).entry.md5 = RecordBefore(p).entry.md5
              /\ \A p \in CopiedPaths :
                    /\ \E r \in last.em :
                          /\ r.path = p
                          /\ r.entry.offset >= Len(pre)
                          /\ r.entry.size = RecordBefore(p).entry.size
                          /\ r.entry.md5 = RecordBefore(p).entry.md5
                    /\ UniquePaths =>
                          /\ RecordAfter(p).entry.offset >= Len(pre)
                          /\ RecordAfter(p).entry.offset # RecordBefore(p).entry.offset

\* a successful call added a path and replaced an entry whose data was
\* below the new end of the table: another entry was relocated, one entry
\* stayed, the replaced one was not copied
C19_Witness ==
    /\ ReachedGuard /\ UniquePaths /\ last.result = "ok"
    /\ CopiedPaths # {}
    /\ BatchPaths \ DOMAIN index # {}
    /\ \E p \in BatchPaths \cap DOMAIN index :
          RecordBefore(p).entry.offset < ClaimedTableEndAfter
    /\ ClaimedTableEndAfter > OldTableEnd

\* the batch paths the archive did not have, in batch order
AddedPaths ==
    LET added == SelectSeq(last.files, LAMBDA it : it.path \notin DOMAIN index)
    IN  [i \in 1..Len(added) |-> added[i].path]

\* the table offset the claim gives the i-th added path
ClaimedAddedTableOffset(i) ==
    IndexTableStart + RecordSizes(DOMAIN index)
      + SumSeq([k \in 1..(i - 1) |-> AddedRecordSize(AddedPaths[k])])

\* the sum of the serialized sizes of the given records
RECURSIVE SizesOf(_)
SizesOf(rs) ==
    IF rs = {} THEN 0
    ELSE LET r == CHOOSE q \in rs : TRUE
         IN  4 + r.entry.path_len + 32 + SizesOf(rs \ {r})

\* every record of the call's final index is at table_start plus the sizes
\* of the records before it, and is stored there
IndexBackToBack ==
    \A r \in last.em :
        /\ r.table_offset
              = IndexTableStart + SizesOf({ q \in last.em : q.table_offset < r.table_offset })
        /\ RawFileEntry_read(file, r.table_offset).ok
        /\ RawFileEntry_read(file, r.table_offset).entry = r.entry

\* the stored table, read from the end of the header, is the index's table
IndexIsStoredTable ==
    /\ Len(DiskTable(file)) = Cardinality(last.em)
    /\ { [table_offset |-> r.table_offset, entry |-> r.entry] : r \in last.em }
          = { DiskTable(file)[k] : k \in 1..Len(DiskTable(file)) }

ExistingKeepTableOffset ==
    \A p \in DOMAIN index :
        /\ \E r \in last.em : r.path = p /\ r.table_offset = index[p]
        /\ RecordAfter(p).ok
        /\ RecordAfter(p).entry.path_bytes = RecordBefore(p).entry.path_bytes

AddedAtClaimedTableOffset ==
    \A i \in 1..Len(AddedPaths) :
        /\ \E r \in last.em :
              r.path = AddedPaths[i] /\ r.table_offset = ClaimedAddedTableOffset(i)
        /\ RawFileEntry_read(file, ClaimedAddedTableOffset(i)).ok
        /\ RawFileEntry_read(file, ClaimedAddedTableOffset(i)).entry.path_bytes
              = normalized_path_bytes(AddedPaths[i])

C20_BackToBackWithRepeatedPaths ==
    (ReachedGuard /\ last.result = "ok") =>
        /\ ExistingKeepTableOffset
        /\ AddedAtClaimedTableOffset
        /\ IndexBackToBack

KeptPaths == (DOMAIN index) \ ListedPaths

\* where the claim puts the record of a kept path: table_start plus the
\* sizes of the kept records that stood before it
ClaimedKeptTableOffset(p) ==
    IndexTableStart + RecordSizes({ q \in KeptPaths : index[q] < index[p] })

\* C21: after a successful delete_files_in_pck call (on an archive with
\* unique paths, or one that removed an entry) the record of every remaining
\* entry is stored at table_start plus the sizes of the remaining records
\* that stood before it, with the path bytes, data offset, size and checksum
\* it had, and the data bytes it had in the file are still at that offset;
\* on an archive with unique paths the stored table is exactly these
\* records.
C21_DeleteKeepsOrderAndData ==
    (Succeeded("delete") /\ last.paths # <<>>
       /\ (UniquePaths \/ ListedPaths \cap DOMAIN index # {})) =>
        /\ \A p \in KeptPaths :
              /\ RawFileEntry_read(file, ClaimedKeptTableOffset(p)).ok
              /\ RawFileEntry_read(file, ClaimedKeptTableOffset(p)).entry
                    = RecordBefore(p).entry
              /\ RecordBefore(p).entry.offset + RecordBefore(p).entry.size <= Len(pre) =>
                    SameBytes(file, pre, RecordBefore(p).entry.offset,
                              RecordBefore(p).entry.offset + RecordBefore(p).entry.size)
        /\ UniquePaths =>
              /\ FileCount(file) = Cardinality(KeptPaths)
              /\ Len(DiskTable(file)) = Cardinality(KeptPaths)
              /\ \A p \in KeptPaths : \E k \in 1..Len(DiskTable(file)) :
                    /\ DiskTable(file)[k].table_offset = ClaimedKeptTableOffset(p)
                    /\ DiskTable(file)[k].entry = RecordBefore(p).entry

\* a successful delete removed a record that stood before a remaining one,
\* and another remaining record stood before the removed one
C21_Witness ==
    /\ Succeeded("delete") /\ UniquePaths
    /\ \E gone \in ListedPaths \cap DOMAIN index :
          /\ \E p \in KeptPaths : index[p] > index[gone]
          /\ \E p \in KeptPaths : index[p] < index[gone]
    /\ \E p \in KeptPaths : RecordBefore(p).entry.size > 0

\* the sum of the data sizes the given paths of the index had
RECURSIVE DataSizes(_)
DataSizes(ps) ==
    IF ps = {} THEN 0
    ELSE LET p == CHOOSE q \in ps : TRUE
         IN  RecordBefore(p).entry.size + DataSizes(ps \ {p})

PayloadLengths == SumSeq([i \in 1..Len(last.files) |-> Len(last.files[i].data)])

\* the paths whose old data the last replace call left behind
LeftBehind == CopiedPaths \cup (BatchPaths \cap DOMAIN index)

\* a replace call does not shorten the file, and after a successful one the
\* file has grown by the relocated data and the payloads
GrowsByAppends ==
    /\ Returned("replace") => Len(file) >= Len(pre)
    /\ (Succeeded("replace") /\ last.files # <<>>) =>
          Len(file) = Len(pre) + DataSizes(CopiedPaths) + PayloadLengths

\* after a successful call no record has its data where the data of a
\* replaced or relocated entry was: the index has it at or after the old
\* end of the file
OldDataUnreferenced ==
    (Succeeded("replace") /\ last.files # <<>>) =>
        \A p \in LeftBehind : \E r \in last.em : r.path = p /\ r.entry.offset >= Len(pre)

\* C22 as stated: replace_files_in_pck never shortens the file, a
\* successful call makes it longer by the sizes of the relocated entries
\* and the lengths of the payloads, and the bytes of the replaced and of the
\* relocated-away data are still in the file, where they were, with no
\* record pointing at them.
C22_OldDataBytesStay ==
    /\ GrowsByAppends
    /\ OldDataUnreferenced
    /\ (Succeeded("replace") /\ last.files # <<>>) =>
          \A p \in LeftBehind :
              RecordBefore(p).entry.offset + RecordBefore(p).entry.size <= Len(pre) =>
                  SameBytes(file, pre, RecordBefore(p).entry.offset,
                            RecordBefore(p).entry.offset + RecordBefore(p).entry.size)

\* C22 as amended: the same for the length; of the old file, the bytes at
\* and after table_end_after are still there, while a relocated entry with
\* data began below table_end_after, where the table of a successful call
\* is written: its old bytes are overwritten from their start up to
\* table_end_after.
C22_OldBytesStayAboveTable ==
    /\ GrowsByAppends
    /\ OldDataUnreferenced
    /\ (Succeeded("replace") /\ last.files # <<>>) =>
          /\ ClaimedTableEndAfter <= Len(pre)
          /\ SameBytes(file, pre, ClaimedTableEndAfter, Len(pre))
          /\ \A p \in CopiedPaths : RecordBefore(p).entry.offset < ClaimedTableEndAfter
          /\ UniquePaths =>
                SubSeq(file, 89, ClaimedTableEndAfter) = TableBytes(iter_by_table_offset(last.em))

\* a successful call relocated an entry with data, replaced another one
\* whose data lay after the new table, and added a path
C22_Witness ==
    /\ Succeeded("replace") /\ UniquePaths
    /\ \E p \in CopiedPaths : RecordBefore(p).entry.size > 0
    /\ \E p \in BatchPaths \cap DOMAIN index :
          /\ RecordBefore(p).entry.size > 0
          /\ RecordBefore(p).entry.offset >= ClaimedTableEndAfter
    /\ BatchPaths \ DOMAIN index # {}
    /\ Len(file) > Len(pre) + PayloadLengths

\* the paths of the archive the last call was given, read from that file
PathsBefore == DOMAIN read_header_and_index(pre).index

\* the paths that remain after the last call, by the claim
PathsThatRemain ==
    IF last.op = "replace" THEN PathsBefore \cup BatchPaths ELSE PathsBefore \ ListedPaths

\* the call was made with the header and the index of the file as it was
\* when the call began
CalledWithFileState ==
    (last.op \in {"replace", "delete"} /\ loaded = "no") =>
        /\ read_header_and_index(pre).ok
        /\ header = read_header_and_index(pre).header
        /\ index = read_header_and_index(pre).index

\* what the next call is given, read from the file a successful call left:
\* the paths that remain, and as many entries
NextCallSeesWhatRemains ==
    /\ loaded = "ok"
    /\ DOMAIN index = PathsThatRemain
    /\ header.file_count = Cardinality(PathsThatRemain)

\* C23 as stated: each mutation call is made with the header and index of
\* the file as it is when the call begins, and the call after a successful
\* one is given the table that one wrote: the paths the archive had, without
\* the deleted and with the added ones, and a file_count that is their
\* number.
C23_LaterCallSeesEarlierWrite ==
    /\ CalledWithFileState
    /\ RereadAfterWrite => NextCallSeesWhatRemains

\* the same for calls on an archive with unique paths whose batch has no
\* path ending in a NUL character
C23_SeesEarlierWriteWithoutTrailingNul ==
    /\ CalledWithFileState
    /\ (/\ RereadAfterWrite /\ PreUniquePaths
        /\ \A p \in BatchPaths : TrimNul(p) = p) => NextCallSeesWhatRemains

\* the archive the last replace call was given has room: unique paths,
\* every data offset at or after the end of the table, and a file at least
\* as long as table_end_after
HasRoom ==
    /\ UniquePaths
    /\ \A p \in DOMAIN index : RecordBefore(p).entry.offset >= OldTableEnd
    /\ Len(pre) >= ClaimedTableEndAfter

\* C24: a replace_files_in_pck call with a batch of unique paths on an
\* archive that has room does not return the overflow error; when it comes
\* to the guard every entry's data offset is at or after table_end_after;
\* a batch that only replaces relocates nothing.
C24_NoOverflowWithRoom ==
    (Returned("replace") /\ last.files # <<>> /\ HasRoom
       /\ Cardinality(BatchPaths) = Len(last.files)) =>
        /\ last.result # "err_overflow"
        /\ last.result = "ok" =>
              \A r \in last.em : r.entry.offset >= ClaimedTableEndAfter
        /\ BatchPaths \subseteq DOMAIN index =>
              /\ CopiedPaths = {}
              /\ ClaimedTableEndAfter = OldTableEnd

\* a call on an archive with room added a path, relocated an entry whose
\* data lay below table_end_after and succeeded, in a file that was just
\* long enough or longer
C24_Witness ==
    /\ Succeeded("replace") /\ last.files # <<>> /\ HasRoom
    /\ BatchPaths \ DOMAIN index # {}
    /\ CopiedPaths # {}
    /\ \E p \in DOMAIN index : RecordBefore(p).entry.offset >= ClaimedTableEndAfter

\* ---------------------------------------------------------------- C25

\* the bytes stored under a path in the archive run_tweak opened
StoredIn(f, p) ==
    { ReadAt(f, DiskTable(f)[k].entry.offset, DiskTable(f)[k].entry.size) :
        k \in { j \in 1..Len(DiskTable(f)) : RawFileEntry_path(DiskTable(f)[j].entry) = p } }

PluginVersionTexts == StoredIn(tweak.file0, PluginVersionPath)

GameGdeTexts == StoredIn(tweak.file0, GameGdePath)

\* the bytes of a text before its first line feed
FirstLine(t) ==
    LET feeds == { i \in 1..Len(t) : t[i] = 10 }
    IN  IF feeds = {} THEN t ELSE SubSeq(t, 1, MinOf(feeds) - 1)

\* a text has a second line: a line feed that is not its last byte
HasSecondLine(t) == \E i \in 1..(Len(t) - 1) : t[i] = 10

\* a digest written as lower-case hexadecimal digits, "0".."9" and "a".."f"
HexOf(d) ==
    LET digits == <<48, 49, 50, 51, 52, 53, 54, 55, 56, 57, 97, 98, 99, 100, 101, 102>>
    IN  [i \in 1..(2 * Len(d)) |->
            IF i % 2 = 1 THEN digits[(d[(i + 1) \div 2] \div 16) + 1]
            ELSE digits[(d[i \div 2] % 16) + 1]]

RequiredVersion == tweak.config.required_game_version

ConfigurationLoaded ==
    /\ tweak.config.version_config_ok
    /\ tweak.config.replace_config_ok
    /\ tweak.config.assets_ok

GameGdeHashMatches ==
    /\ GameGdeTexts # {}
    /\ RequiredVersion \in DOMAIN tweak.config.version_hashes
    /\ \A t \in GameGdeTexts : HexOf(Md5(t)) = tweak.config.version_hashes[RequiredVersion]

\* the version check as stated: the first line is the required version
VersionCheckAsStated ==
    IF PluginVersionTexts # {}
    THEN \A t \in PluginVersionTexts : FirstLine(t) = RequiredVersion
    ELSE GameGdeHashMatches

\* the version check of the code: the text is UTF-8 and has two lines, and
\* its first line without the white space around it is the required version
VersionCheckTrimmed ==
    IF PluginVersionTexts # {}
    THEN \A t \in PluginVersionTexts :
            /\ \A i \in 1..Len(t) : t[i] < 128
            /\ HasSecondLine(t)
            /\ TrimmedLine(FirstLine(t)) = RequiredVersion
    ELSE GameGdeHashMatches

\* run_tweak has called delete_files_in_pck or replace_files_in_pck, or the
\* archive is no longer the one it opened
TweakWrote == tweak.pc # "idle" /\ (last # NoCall \/ file # tweak.file0)

\* run_tweak returned an error without having called either function
TweakFailedEarly == tweak.pc = "failed" /\ last = NoCall

\* C25, as stated: run_tweak calls delete_files_in_pck or
\* replace_files_in_pck, or changes the archive, only if the configuration
\* and its assets were loaded and either plugin_version.txt is in the
\* archive and its first line equals the required game version, or it is
\* not and the MD5 of Game.gde is the configured hash.  It does not hold:
\* the code compares the first line without the white space around it.
C25_WritesOnlyAfterVersionCheck ==
    TweakWrote => (ConfigurationLoaded /\ VersionCheckAsStated)

\* C25, amended: the same with the first line compared after trimming, in a
\* text that is UTF-8 and has at least two lines; and with the check passed
\* and everything loaded, run_tweak does not fail before its calls, whatever
\* Game.gde holds when plugin_version.txt is there.
C25_WritesOnlyAfterTrimmedVersionCheck ==
    /\ TweakWrote => (ConfigurationLoaded /\ VersionCheckTrimmed)
    /\ tweak.pc # "idle" /\ ~(ConfigurationLoaded /\ VersionCheckTrimmed)
          => (last = NoCall /\ file = tweak.file0 /\ tweak.pc # "done")
    /\ TweakFailedEarly => ~(ConfigurationLoaded /\ VersionCheckTrimmed)

\* run_tweak finished and changed the archive on the strength of a
\* plugin_version.txt whose first line has white space around the version,
\* with a Game.gde that is missing or does not match
C25_Witness ==
    /\ tweak.pc = "done"
    /\ file # tweak.file0
    /\ PluginVersionTexts # {}
    /\ \E t \in PluginVersionTexts : FirstLine(t) # RequiredVersion
    /\ ~GameGdeHashMatches
    /\ VersionCheckTrimmed

\* run_tweak finished after the Game.gde hash check, without
\* plugin_version.txt in the archive it opened
C25_WitnessGameGde ==
    /\ tweak.pc = "done"
    /\ PluginVersionTexts = {}
    /\ GameGdeHashMatches

====
